---- MODULE Spec2Model ----
(***************************************************************************)
(* The declarative-diagram push engine of libs/excalidraw (push.py, api.py) *)
(* as a state machine: a diagram document is validated, flattened,         *)
(* fingerprinted, diffed against the persisted state file and reconciled   *)
(* with the canvas server through list / delete / batch-create / clear     *)
(* calls.                                                                  *)
(*                                                                         *)
(* Conventions.  A YAML mapping is a function whose DOMAIN is the set of   *)
(* keys present ('k' in d  is  k \in DOMAIN d).  An optional value (None   *)
(* in the source) is a sequence of length 0 or 1.  A string identifier is  *)
(* a sequence of tokens, so that f"{a}-to-{b}" is concatenation.  A        *)
(* SHA-256 digest is represented by its (canonical) preimage: digests are  *)
(* equal exactly when the hashed data are equal.                           *)
(***************************************************************************)
EXTENDS Integers, Sequences, FiniteSets, TLC

\* Server-assigned identifiers are 1..MaxId; a push starts only while the
\* server can still hand out one fresh identifier per document entry.
MaxId == 6

\* ------------------------------------------------------------------------
\* Mappings, options, ordered dictionaries
\* ------------------------------------------------------------------------

Has(e, f) == f \in DOMAIN e

Put(e, f, v) == [k \in DOMAIN e \cup {f} |-> IF k = f THEN v ELSE e[k]]

Get(e, f, default) == IF Has(e, f) THEN e[f] ELSE default

Range(s) == {s[i] : i \in DOMAIN s}

\* An insertion-ordered dict: assigning an existing key keeps its position.
EmptyDict == [keys |-> <<>>, val |-> <<>>]

DictSet(d, k, v) ==
    [keys |-> IF k \in Range(d.keys) THEN d.keys ELSE Append(d.keys, k),
     val  |-> Put(d.val, k, v)]

\* ------------------------------------------------------------------------
\* Parsing and fingerprints
\* ------------------------------------------------------------------------

\* pos is [x, y] or [x, y, dim]; the string 'WxH' is the pair <<W, H>>, a
\* third component without an 'x' is a 1-tuple.
parse_pos(pos) ==
    IF Len(pos) >= 3 /\ Len(pos[3]) = 2
    THEN [x |-> pos[1], y |-> pos[2], w |-> <<pos[3][1]>>, h |-> <<pos[3][2]>>]
    ELSE [x |-> pos[1], y |-> pos[2], w |-> <<>>, h |-> <<>>]

generate_group_id(group_yaml_id) == <<"sha256">> \o group_yaml_id

\* compute_hash of the authored entry alone.
compute_hash_IgnoresGroup(entry, group_info) == entry

\* group_info: <<>> or <<(group id, offset x, offset y, remote group id)>>.
compute_hash(entry, group_info) ==
    IF group_info # <<>>
    THEN Put(entry, "_group_", [id |-> group_info[1][1],
                                x  |-> group_info[1][2],
                                y  |-> group_info[1][3]])
    ELSE entry

\* ------------------------------------------------------------------------
\* Validation: flattening of groups, synthetic identifiers, integrity
\* ------------------------------------------------------------------------

IsType(elem, t) == Has(elem, "type") /\ elem.type = t

Digit(n) == CASE n = 0 -> "0" [] n = 1 -> "1" [] n = 2 -> "2" [] n = 3 -> "3"
              [] n = 4 -> "4" [] n = 5 -> "5" [] n = 6 -> "6" [] n = 7 -> "7"
              [] n = 8 -> "8" [] OTHER -> "9"

TextId(n) == <<"_text_", Digit(n)>>

ConnectorId(c) == c.from \o <<"-to-">> \o c.to

ValidationStart ==
    [err |-> "", shapes |-> <<>>, shape_ids |-> {}, group_map |-> <<>>,
     text_counter |-> 0]

Raise(acc, msg) == [acc EXCEPT !.err = msg]

\* The branch of process_element for a regular shape or text (lines 137-170).
process_leaf(elem, group_context, acc) ==
    IF ~Has(elem, "type") THEN Raise(acc, "missing type")
    ELSE
    LET auto  == IsType(elem, "text") /\ ~Has(elem, "id")
        e1    == IF auto THEN Put(elem, "id", TextId(acc.text_counter)) ELSE elem
        acc1  == IF auto THEN [acc EXCEPT !.text_counter = @ + 1] ELSE acc
    IN  IF ~Has(e1, "id") THEN Raise(acc1, "missing id")
        ELSE IF e1.id \in acc1.shape_ids THEN Raise(acc1, "duplicate id")
        ELSE IF IsType(e1, "text") /\ ~Has(e1, "text") THEN Raise(acc1, "missing text")
        ELSE IF ~Has(e1, "pos") THEN Raise(acc1, "missing pos")
        ELSE [acc1 EXCEPT
                !.shape_ids = @ \cup {e1.id},
                !.shapes    = Append(@, e1),
                !.group_map = IF group_context # <<>>
                              THEN Put(@, e1.id, group_context[1])
                              ELSE @]

\* The loop over a group's nested shapes (lines 131-135); a nested group
\* raises (lines 113-114).
RECURSIVE process_nested(_, _, _, _)
process_nested(nested, group_z, group_context, acc) ==
    IF nested = <<>> \/ acc.err # "" THEN acc
    ELSE LET n0 == Head(nested)
             n  == IF Has(n0, "z") THEN n0 ELSE Put(n0, "z", group_z)
             a  == IF IsType(n, "group")
                   THEN Raise(acc, "nested group")
                   ELSE process_leaf(n, group_context, acc)
         IN  process_nested(Tail(nested), group_z, group_context, a)

\* process_element at top level (group_context is None).
process_element(elem, acc) ==
    IF IsType(elem, "group")
    THEN IF ~Has(elem, "id") THEN Raise(acc, "missing id")
         ELSE IF ~Has(elem, "pos") THEN Raise(acc, "missing pos")
         ELSE IF ~Has(elem, "shapes") THEN Raise(acc, "missing shapes")
         ELSE process_nested(elem.shapes, Get(elem, "z", 0),
                             <<<<elem.id, elem.pos[1], elem.pos[2],
                                 generate_group_id(elem.id)>>>>, acc)
    ELSE process_leaf(elem, <<>>, acc)

RECURSIVE process_all(_, _)
process_all(shapes_raw, acc) ==
    IF shapes_raw = <<>> \/ acc.err # "" THEN acc
    ELSE process_all(Tail(shapes_raw), process_element(Head(shapes_raw), acc))

\* validate_connectors leaving out a connector with an unknown endpoint.
RECURSIVE validate_connectors_DropsUnknown(_, _, _)
validate_connectors_DropsUnknown(connectors, shape_ids, done) ==
    IF connectors = <<>> THEN [err |-> "", connectors |-> done]
    ELSE LET c0 == Head(connectors)
         IN  IF ~Has(c0, "from") \/ ~Has(c0, "to")
             THEN [err |-> "missing from/to", connectors |-> done]
             ELSE LET c1 == IF Has(c0, "id") THEN c0
                            ELSE Put(c0, "id", ConnectorId(c0))
                      c  == IF Has(c1, "type") THEN c1
                            ELSE Put(c1, "type", "arrow")
                  IN  validate_connectors_DropsUnknown(
                          Tail(connectors), shape_ids,
                          IF c.from \in shape_ids /\ c.to \in shape_ids
                          THEN Append(done, c) ELSE done)

\* The connector loop (lines 177-187): [err, connectors] with the defaults
\* for id and type filled in.
RECURSIVE validate_connectors(_, _, _)
validate_connectors(connectors, shape_ids, done) ==
    IF connectors = <<>> THEN [err |-> "", connectors |-> done]
    ELSE LET c0 == Head(connectors)
         IN  IF ~Has(c0, "from") \/ ~Has(c0, "to")
             THEN [err |-> "missing from/to", connectors |-> done]
             ELSE LET c1 == IF Has(c0, "id") THEN c0
                            ELSE Put(c0, "id", ConnectorId(c0))
                      c  == IF Has(c1, "type") THEN c1
                            ELSE Put(c1, "type", "arrow")
                  IN  IF c.from \notin shape_ids
                      THEN [err |-> "unknown from", connectors |-> done]
                      ELSE IF c.to \notin shape_ids
                      THEN [err |-> "unknown to", connectors |-> done]
                      ELSE validate_connectors(Tail(connectors), shape_ids,
                                               Append(done, c))

validate_yaml(data) ==
    LET acc == process_all(Get(data, "shapes", <<>>), ValidationStart)
        cs  == validate_connectors(Get(data, "connectors", <<>>),
                                   acc.shape_ids, <<>>)
    IN  [err        |-> IF acc.err # "" THEN acc.err ELSE cs.err,
         shapes     |-> acc.shapes,
         connectors |-> cs.connectors,
         group_map  |-> acc.group_map]

\* ------------------------------------------------------------------------
\* Arrow geometry, in exact arithmetic.  A coordinate that may be
\* fractional is a fraction <<numerator, denominator>> in lowest terms with
\* a positive denominator.
\* ------------------------------------------------------------------------

Abs(n) == IF n < 0 THEN -n ELSE n

RECURSIVE GCD(_, _)
GCD(a, b) == IF b = 0 THEN a ELSE GCD(b, a % b)

Rat(n, d) ==
    LET g == GCD(Abs(n), Abs(d))
    IN  IF d < 0 THEN <<(-n) \div g, (-d) \div g>> ELSE <<n \div g, d \div g>>

\* ------------------------------------------------------------------------
\* Binary floating point.  clip_to_rect computes t = n / d, then cy + t * dy,
\* in IEEE doubles (53-bit significands, round to nearest, ties to even).
\* With the small integers and halves of a diagram every operand is exact;
\* a quotient p/q whose reduced denominator is not a power of two is
\* rounded, and so may be the product and the sum that follow.  The error
\* is far below the distance between two distinct values built from such
\* operands, so a comparison against a bound can differ from the exact one
\* only when the exact value is equal to the bound.  FloatDrift computes
\* the sign of the error in that case.
\* ------------------------------------------------------------------------

\* floor(log2(p / q)) for positive p, q.
RECURSIVE FloorLog2(_, _)
FloorLog2(p, q) ==
    IF p >= 2 * q THEN FloorLog2(p, 2 * q) + 1
    ELSE IF p < q THEN FloorLog2(2 * p, q) - 1
    ELSE 0

\* The number of binary digits of a.
RECURSIVE BitLen(_)
BitLen(a) == IF a <= 0 THEN 0 ELSE 1 + BitLen(a \div 2)

IsPow2(a) == a > 0 /\ 2 ^ (BitLen(a) - 1) = a

\* 2^n modulo q.
RECURSIVE Pow2Mod(_, _)
Pow2Mod(n, q) == IF n = 0 THEN 1 % q ELSE (2 * Pow2Mod(n - 1, q)) % q

\* The integer c rounded to the nearest multiple of 2^g, a tie going to
\* the even multiple.
RoundToEven(c, g) ==
    IF g <= 0 THEN c
    ELSE LET u   == 2 ^ g
             lo  == (c \div u) * u
             rem == c - lo
         IN  IF 2 * rem < u THEN lo
             ELSE IF 2 * rem > u THEN lo + u
             ELSE IF (lo \div u) % 2 = 0 THEN lo ELSE lo + u

Sign(n) == IF n > 0 THEN 1 ELSE IF n < 0 THEN -1 ELSE 0

\* The sign of fl(c + fl(fl(tn / td) * k)) - (c + (tn / td) * k), where c and
\* k are given in half units, tn / td > 0 is not a dyadic fraction, k # 0
\* and the exact value b = c + (tn / td) * k is a multiple of one half.
\* With p / q the reduced quotient, Et = floor(log2(p / q)), n = 52 - Et:
\*   fl(p / q) = M * 2^-n, where M = (p * 2^n - r) / q, r = p * 2^n mod q, or
\*   that plus one when 2 r > q (no tie: q is no power of two);
\*   M * |k| = a * 2^n + e with a = |(p / q) * k| and e a small integer; it
\*   is rounded to 53 bits, which rounds e to e2;
\*   the sum is b + sign(k) * e2 * 2^(-n-1), rounded back to b when it lies
\*   within half a unit in the last place of b on that side of b.
\* The steps hand their results on as arguments.

\* m = |e2|, sd = the side of b the sum lies on, 2^x = half a unit in the
\* last place of b in the units of e2.
DriftOfSum(m, sd, x) == IF x < 0 \/ m > 2 ^ x THEN sd ELSE 0

DriftAtBound(b, Et, s, e2) ==
    IF e2 = 0 THEN 0
    ELSE IF b = 0 THEN s * Sign(e2)
    ELSE DriftOfSum(Abs(e2), s * Sign(e2),
                    (BitLen(Abs(b)) - 2 - Et)
                    - (IF s * Sign(e2) # Sign(b) /\ IsPow2(Abs(b)) THEN 1 ELSE 0))

DriftOfProduct(c, k, Et, a, e) ==
    DriftAtBound(c + Sign(k) * a, Et, Sign(k),
                 RoundToEven(e, (BitLen(a) + 52 - Et)
                                - (IF e < 0 /\ IsPow2(a) THEN 1 ELSE 0) - 53))

DriftOfQuotient(c, k, q, Et, a, r) ==
    DriftOfProduct(c, k, Et, a,
                   IF 2 * r > q THEN (Abs(k) * (q - r)) \div q
                                ELSE -((Abs(k) * r) \div q))

DriftReduced(c, k, p, q, Et) ==
    DriftOfQuotient(c, k, q, Et, (p * Abs(k)) \div q,
                    ((p % q) * Pow2Mod(52 - Et, q)) % q)

FloatDrift(c, tn, td, k) ==
    DriftReduced(c, k, tn \div GCD(tn, td), td \div GCD(tn, td),
                 FloorLog2(tn, td))

IsDyadic(tn, td) == IsPow2(td \div GCD(tn, td))

\* lo <= c + (tn / td) * k <= hi as the doubles decide it (td > 0; all but
\* tn / td in half units).
FloatInRange(c, tn, td, k, lo, hi) ==
    IF /\ k # 0 /\ tn > 0
       /\ (c * td + tn * k = lo * td \/ c * td + tn * k = hi * td)
       /\ ~IsDyadic(tn, td)
    THEN (IF c * td + tn * k = lo * td THEN 1 ELSE -1)
         * FloatDrift(c, tn, td, k) >= 0
    ELSE lo * td <= c * td + tn * k /\ c * td + tn * k <= hi * td

\* The padding default of clip_to_rect.
Pad == 5

\* Lines 298-299 and 331-336: the centre when the ray has no length or no
\* candidate was kept, else the candidate of least t, the first among
\* equals.
first_candidate(cx, cy, dx, dy, candidates) ==
    LET less(c, d) == c[1] * d[2] < d[1] * c[2]
    IN  IF (dx = 0 /\ dy = 0) \/ candidates = <<>>
        THEN <<Rat(cx, 2), Rat(cy, 2)>>
        ELSE LET c == candidates[CHOOSE i \in DOMAIN candidates :
                         /\ \A j \in DOMAIN candidates : ~less(candidates[j], candidates[i])
                         /\ \A j \in 1..(i - 1) : less(candidates[i], candidates[j])]
             IN  <<Rat(c[3][1], 2 * c[3][2]), Rat(c[4][1], 2 * c[4][2])>>

\* Where the ray from (cx, cy) toward (tx, ty) exits the rectangle grown
\* by pad.  The centres are passed in half units (twice their value, an
\* integer); rx, ry, rw, rh, pad in units.  A candidate is
\* <<t numerator, t denominator (positive), x, y>> with x, y fractions in
\* half units; the result is the candidate of least t, the first among
\* equals (the stable sort of candidates appended in the order right,
\* left, bottom, top), in units.
clip_to_rect(cx, cy, tx, ty, rx, ry, rw, rh, pad) ==
    LET dx     == tx - cx
        dy     == ty - cy
        right  == 2 * (rx + rw + pad)
        left   == 2 * (rx - pad)
        bottom == 2 * (ry + rh + pad)
        top    == 2 * (ry - pad)
        \* cy + t * dy and cx + t * dx, times t's denominator
        yAt(tn, td) == cy * td + tn * dy
        xAt(tn, td) == cx * td + tn * dx
        inY(tn, td) == FloatInRange(cy, tn, td, dy, top, bottom)
        inX(tn, td) == FloatInRange(cx, tn, td, dx, left, right)
    IN  first_candidate(cx, cy, dx, dy,
            (IF dx > 0 /\ inY(right - cx, dx)
             THEN <<<<right - cx, dx, <<right, 1>>, <<yAt(right - cx, dx), dx>>>>>>
             ELSE <<>>)
         \o (IF dx < 0 /\ inY(cx - left, -dx)
             THEN <<<<cx - left, -dx, <<left, 1>>, <<yAt(cx - left, -dx), -dx>>>>>>
             ELSE <<>>)
         \o (IF dy > 0 /\ inX(bottom - cy, dy)
             THEN <<<<bottom - cy, dy, <<xAt(bottom - cy, dy), dy>>, <<bottom, 1>>>>>>
             ELSE <<>>)
         \o (IF dy < 0 /\ inX(cy - top, -dy)
             THEN <<<<cy - top, -dy, <<xAt(cy - top, -dy), -dy>>, <<top, 1>>>>>>
             ELSE <<>>))

\* The absolute origin of a flattened element: its pos plus its group's
\* origin when it is a group member.
AbsPos(shape, group_map) ==
    LET p == parse_pos(shape.pos)
    IN  IF Has(group_map, shape.id)
        THEN [p EXCEPT !.x = @ + group_map[shape.id][2],
                       !.y = @ + group_map[shape.id][3]]
        ELSE p

\* The arrow from start point s to end point e (lines 363-369).
ArrowGeometry(s, e) ==
    LET w == Rat(e[1][1] * s[1][2] - s[1][1] * e[1][2], e[1][2] * s[1][2])
        h == Rat(e[2][1] * s[2][2] - s[2][1] * e[2][2], e[2][2] * s[2][2])
    IN  [err    |-> "",
         x      |-> s[1],
         y      |-> s[2],
         width  |-> <<Abs(w[1]), w[2]>>,
         height |-> <<Abs(h[1]), h[2]>>,
         points |-> <<<<<<0, 1>>, <<0, 1>>>>, <<w, h>>>>]

\* [err, x, y, width, height, points]; err when an endpoint has no
\* width/height (fx + fw / 2 with fw None raises TypeError).
compute_arrow(from_shape, to_shape, group_map) ==
    LET f == AbsPos(from_shape, group_map)
        t == AbsPos(to_shape, group_map)
    IN  IF f.w = <<>> \/ f.h = <<>> \/ t.w = <<>> \/ t.h = <<>>
        THEN [err |-> "TypeError"]
        ELSE ArrowGeometry(
                clip_to_rect(2 * f.x + f.w[1], 2 * f.y + f.h[1],
                             2 * t.x + t.w[1], 2 * t.y + t.h[1],
                             f.x, f.y, f.w[1], f.h[1], Pad),
                clip_to_rect(2 * t.x + t.w[1], 2 * t.y + t.h[1],
                             2 * f.x + f.w[1], 2 * f.y + f.h[1],
                             t.x, t.y, t.w[1], t.h[1], Pad))

\* ------------------------------------------------------------------------
\* Skeleton conversion (authored colour, style and label fields are passed
\* through by the source and are not carried by the model's documents)
\* ------------------------------------------------------------------------

\* GroupIds giving texts no group identifier.
GroupIds_SkipsTexts(entry, group_map) ==
    IF Has(group_map, entry.id) /\ entry.type # "text"
    THEN <<group_map[entry.id][4]>> ELSE <<>>

GroupIds(entry, group_map) ==
    IF Has(group_map, entry.id) THEN <<group_map[entry.id][4]>> ELSE <<>>

shape_to_skeleton(shape, group_map) ==
    LET p == AbsPos(shape, group_map)
    IN  [type |-> shape.type, x |-> p.x, y |-> p.y,
         width |-> p.w, height |-> p.h,
         groupIds |-> GroupIds(shape, group_map), err |-> ""]

text_to_skeleton(text_entry, group_map) ==
    LET p == AbsPos(text_entry, group_map)
    IN  [type |-> "text", x |-> p.x, y |-> p.y, text |-> text_entry.text,
         groupIds |-> GroupIds(text_entry, group_map), err |-> ""]

connector_to_skeleton(connector, shapes_lookup, group_map) ==
    LET geom == compute_arrow(shapes_lookup[connector.from],
                              shapes_lookup[connector.to], group_map)
    IN  IF geom.err # "" THEN [err |-> geom.err]
        ELSE [type |-> connector.type, x |-> geom.x, y |-> geom.y,
              width |-> geom.width, height |-> geom.height,
              points |-> geom.points, err |-> ""]

\* ------------------------------------------------------------------------
\* The first half of push: validate, order by z, compile (lines 436-468)
\* ------------------------------------------------------------------------

get_z_index(shape) == Get(shape, "z", 0)

\* shapes_sorted leaving the shapes in document order.
shapes_sorted_DocumentOrder(shapes) == shapes

\* sorted(enumerate(shapes), key = (z, index)).
shapes_sorted(shapes) ==
    LET n == Len(shapes)
        before(i, j) == \/ get_z_index(shapes[i]) < get_z_index(shapes[j])
                        \/ /\ get_z_index(shapes[i]) = get_z_index(shapes[j])
                           /\ i < j
        rank(i) == Cardinality({j \in 1..n : before(j, i)}) + 1
    IN  [k \in 1..n |-> shapes[CHOOSE i \in 1..n : rank(i) = k]]

RECURSIVE collect_entries(_, _)
collect_entries(entries, d) ==
    IF entries = <<>> THEN d
    ELSE collect_entries(Tail(entries), DictSet(d, Head(entries).id, Head(entries)))

\* Compile handing over skeletons whose construction failed.
Compile_KeepsFailedSkeletons(data) ==
    LET v == validate_yaml(data)
        shapes_lookup == [id \in {v.shapes[i].id : i \in DOMAIN v.shapes} |->
                             v.shapes[CHOOSE i \in DOMAIN v.shapes : v.shapes[i].id = id]]
        yaml_entries == collect_entries(shapes_sorted(v.shapes) \o v.connectors,
                                        EmptyDict)
        is_connector(e) == \E i \in DOMAIN v.connectors : v.connectors[i] = e
        skeletons == [id \in Range(yaml_entries.keys) |->
                        LET e == yaml_entries.val[id]
                        IN  IF is_connector(e)
                            THEN connector_to_skeleton(e, shapes_lookup, v.group_map)
                            ELSE IF e.type = "text"
                            THEN text_to_skeleton(e, v.group_map)
                            ELSE shape_to_skeleton(e, v.group_map)]
    IN  IF v.err # "" THEN [err |-> v.err]
        ELSE [err          |-> "",
              yaml_entries |-> yaml_entries,
              skeletons    |-> skeletons,
              group_map    |-> v.group_map]

\* [err, yaml_entries, skeletons, group_map]: the entries in creation order
\* (shapes by z, then connectors) and one skeleton per entry id.
Compile(data) ==
    LET v == validate_yaml(data)
        shapes_lookup == [id \in {v.shapes[i].id : i \in DOMAIN v.shapes} |->
                             v.shapes[CHOOSE i \in DOMAIN v.shapes : v.shapes[i].id = id]]
        yaml_entries == collect_entries(shapes_sorted(v.shapes) \o v.connectors,
                                        EmptyDict)
        is_connector(e) == \E i \in DOMAIN v.connectors : v.connectors[i] = e
        skeletons == [id \in Range(yaml_entries.keys) |->
                        LET e == yaml_entries.val[id]
                        IN  IF is_connector(e)
                            THEN connector_to_skeleton(e, shapes_lookup, v.group_map)
                            ELSE IF e.type = "text"
                            THEN text_to_skeleton(e, v.group_map)
                            ELSE shape_to_skeleton(e, v.group_map)]
    IN  IF v.err # "" THEN [err |-> v.err]
        ELSE IF \E id \in DOMAIN skeletons : skeletons[id].err # ""
        THEN [err |-> "TypeError"]
        ELSE [err          |-> "",
              yaml_entries |-> yaml_entries,
              skeletons    |-> skeletons,
              group_map    |-> v.group_map]

GroupInfo(group_map, yaml_id) ==
    IF Has(group_map, yaml_id) THEN <<group_map[yaml_id]>> ELSE <<>>

\* ------------------------------------------------------------------------
\* Diff against the persisted state
\* ------------------------------------------------------------------------

\* The state file: {"version": 1, "mappings": {id: {excalidraw_id, hash}}};
\* mappings is an ordered dict.  load_state of a missing file is EmptyState.
EmptyState == [mappings |-> EmptyDict]

\* compute_diff without the hash comparison: a known id is unchanged.
compute_diff_SkipsHash(yaml_entries, old_state, group_map) ==
    LET mappings == old_state.mappings
        h(yid) == compute_hash(yaml_entries.val[yid], GroupInfo(group_map, yid))
        is_create(yid) == yid \notin Range(mappings.keys)
        is_same(yid)   == yid \in Range(mappings.keys)
        is_gone(yid)   == yid \notin Range(yaml_entries.keys)
        triple(ids)    == [i \in DOMAIN ids |->
                              <<ids[i], yaml_entries.val[ids[i]], h(ids[i])>>]
        gone           == SelectSeq(mappings.keys, is_gone)
    IN  [to_create |-> triple(SelectSeq(yaml_entries.keys, is_create)),
         to_update |-> <<>>,
         to_delete |-> [i \in DOMAIN gone |->
                          <<gone[i], mappings.val[gone[i]].excalidraw_id>>],
         unchanged |-> SelectSeq(yaml_entries.keys, is_same)]

compute_diff(yaml_entries, old_state, group_map) ==
    LET mappings == old_state.mappings
        h(yid) == compute_hash(yaml_entries.val[yid], GroupInfo(group_map, yid))
        is_create(yid) == yid \notin Range(mappings.keys)
        is_update(yid) == /\ yid \in Range(mappings.keys)
                          /\ mappings.val[yid].hash # h(yid)
        is_same(yid)   == /\ yid \in Range(mappings.keys)
                          /\ mappings.val[yid].hash = h(yid)
        is_gone(yid)   == yid \notin Range(yaml_entries.keys)
        triple(ids)    == [i \in DOMAIN ids |->
                              <<ids[i], yaml_entries.val[ids[i]], h(ids[i])>>]
        gone           == SelectSeq(mappings.keys, is_gone)
    IN  [to_create |-> triple(SelectSeq(yaml_entries.keys, is_create)),
         to_update |-> triple(SelectSeq(yaml_entries.keys, is_update)),
         to_delete |-> [i \in DOMAIN gone |->
                          <<gone[i], mappings.val[gone[i]].excalidraw_id>>],
         unchanged |-> SelectSeq(yaml_entries.keys, is_same)]

\* ------------------------------------------------------------------------
\* Documents the user may author
\* ------------------------------------------------------------------------

ShapeA == [id |-> <<"a">>, type |-> "rectangle", pos |-> <<0, 0, <<4, 2>>>>]

ShapeB(x) == [id |-> <<"b">>, type |-> "rectangle", pos |-> <<x, 0, <<4, 2>>>>]

GroupG(gx) ==
    [type |-> "group", id |-> <<"g">>, pos |-> <<gx, 30>>,
     shapes |-> <<[id |-> <<"s">>, type |-> "rectangle",
                   pos |-> <<0, 0, <<2, 2>>>>]>>]

ConnAB == [from |-> <<"a">>, to |-> <<"b">>]

DocA == [shapes |-> <<ShapeA>>, connectors |-> <<>>]

DocAB(x) == [shapes |-> <<ShapeA, ShapeB(x)>>, connectors |-> <<ConnAB>>]

DocG(gx) == [shapes |-> <<ShapeA, GroupG(gx)>>, connectors |-> <<>>]

DocMix == [shapes |-> <<ShapeA, ShapeB(40), GroupG(0)>>, connectors |-> <<>>]

DocDangling ==
    [shapes |-> <<ShapeA>>,
     connectors |-> <<[from |-> <<"a">>, to |-> <<"zz">>]>>]

Docs == {DocA, DocAB(20), DocAB(40), DocG(0), DocG(10), DocMix, DocDangling}

\* Texts without an authored id, a text with one, and a group of two.
TextX == [type |-> "text", text |-> "x", pos |-> <<0, 10>>]

TextY == [type |-> "text", text |-> "y", pos |-> <<0, 20>>]

TextT == [id |-> <<"t">>, type |-> "text", text |-> "t", pos |-> <<2, 2>>]

GroupST(gx) ==
    [type |-> "group", id |-> <<"g">>, pos |-> <<gx, 30>>,
     shapes |-> <<[id |-> <<"s">>, type |-> "rectangle",
                   pos |-> <<0, 0, <<2, 2>>>>],
                  TextT>>]

DocShapes(shapes) == [shapes |-> shapes, connectors |-> <<>>]

\* Documents that validate and compile.
DocGST(gx) == DocShapes(<<TextX, GroupST(gx)>>)

DocXY == DocShapes(<<TextX, TextY>>)

DocYX == DocShapes(<<TextY, TextX>>)

DocXA == DocShapes(<<TextX, ShapeA>>)

DocAX == DocShapes(<<ShapeA, TextX>>)

\* Two connectors that get the same synthetic id.
DocTwoArrows ==
    [shapes |-> <<ShapeA, ShapeB(20)>>,
     connectors |-> <<ConnAB, [from |-> <<"a">>, to |-> <<"b">>, label |-> "l"]>>]

\* A connector authored with the id of a shape.
DocArrowNamedA ==
    [shapes |-> <<ShapeA, ShapeB(20)>>,
     connectors |-> <<[id |-> <<"a">>, from |-> <<"a">>, to |-> <<"b">>]>>]

ValidDocs ==
    {DocA, DocAB(20), DocAB(40), DocGST(0), DocGST(10), DocXY, DocYX, DocXA,
     DocAX, DocTwoArrows, DocArrowNamedA}

\* Documents that validate_yaml or the compilation of a skeleton refuses.
DocNoType == DocShapes(<<ShapeA, [id |-> <<"b">>, pos |-> <<20, 0, <<4, 2>>>>]>>)

DocNoId == DocShapes(<<ShapeA, [type |-> "rectangle", pos |-> <<20, 0, <<4, 2>>>>]>>)

DocNoPos == DocShapes(<<ShapeA, [id |-> <<"b">>, type |-> "rectangle"]>>)

DocNoText == DocShapes(<<ShapeA, [type |-> "text", pos |-> <<0, 10>>]>>)

DocTwiceA == DocShapes(<<ShapeA, ShapeA>>)

DocTextIdTaken ==
    DocShapes(<<[id |-> TextId(0), type |-> "rectangle", pos |-> <<0, 0, <<4, 2>>>>],
                TextX>>)

DocGroupTwiceA == DocShapes(<<ShapeA, [type |-> "group", id |-> <<"g">>, pos |-> <<0, 30>>,
                                       shapes |-> <<ShapeA>>]>>)

DocNestedGroup ==
    DocShapes(<<ShapeA, [type |-> "group", id |-> <<"g">>, pos |-> <<0, 30>>,
                         shapes |-> <<GroupST(0)>>]>>)

DocDanglingFrom ==
    [shapes |-> <<ShapeA>>,
     connectors |-> <<[from |-> <<"zz">>, to |-> <<"a">>]>>]

DocArrowToText ==
    [shapes |-> <<ShapeA, TextT>>,
     connectors |-> <<[from |-> <<"a">>, to |-> <<"t">>]>>]

InvalidDocs ==
    {DocNoType, DocNoId, DocNoPos, DocNoText, DocTwiceA, DocTextIdTaken,
     DocGroupTwiceA, DocNestedGroup, DocDangling, DocDanglingFrom,
     DocArrowToText}

MoreDocs == ValidDocs \cup InvalidDocs

\* The edits an author makes between two pushes: a revision of the same
\* diagram (a shape or a group moved, elements reordered, connectors
\* added), or a mistake that makes the document ill-formed.
Diagrams ==
    {{DocA, DocAB(20), DocAB(40), DocTwoArrows, DocArrowNamedA},
     {DocGST(0), DocGST(10)},
     {DocXY, DocYX},
     {DocXA, DocAX}}

Revision(d1, d2) ==
    /\ d1 \in ValidDocs
    /\ \/ d2 \in InvalidDocs
       \/ \E D \in Diagrams : d1 \in D /\ d2 \in D

\* Documents that exercise the geometry of connectors and the order by z.
ShapeSq == [id |-> <<"a">>, type |-> "rectangle", pos |-> <<0, 0, <<4, 4>>>>]

RectB(x, y, w, h) ==
    [id |-> <<"b">>, type |-> "rectangle", pos |-> <<x, y, <<w, h>>>>]

\* The ray from a's centre leaves a's padded box through a corner, at
\* t = 7/25.
DocCorner ==
    [shapes |-> <<ShapeSq, RectB(-25, -24, 4, 2)>>, connectors |-> <<ConnAB>>]

\* The same through the opposite corner, at t = 7/20.
DocDiagonal ==
    [shapes |-> <<ShapeSq, RectB(20, 20, 4, 4)>>, connectors |-> <<ConnAB>>]

\* The ray leaves through a side, at a point that is no double.
DocOblique ==
    [shapes |-> <<ShapeSq, RectB(30, 10, 4, 4)>>, connectors |-> <<ConnAB>>]

\* A connector from a shape to itself: the two centres coincide.
DocSelf ==
    [shapes |-> <<ShapeSq>>,
     connectors |-> <<[from |-> <<"a">>, to |-> <<"a">>]>>]

\* z given at top level (p), inherited from the group (s), given inside the
\* group (t) and left out (q).
DocLayers(qz) ==
    [shapes |->
        <<[id |-> <<"p">>, type |-> "rectangle", pos |-> <<0, 0, <<4, 2>>>>, z |-> 2],
          [type |-> "group", id |-> <<"g">>, pos |-> <<10, 30>>, z |-> 1,
           shapes |-> <<[id |-> <<"s">>, type |-> "rectangle",
                         pos |-> <<0, 0, <<4, 2>>>>],
                        [id |-> <<"t">>, type |-> "text", text |-> "t",
                         pos |-> <<1, 1>>, z |-> 0]>>],
          IF qz = 0
          THEN [id |-> <<"q">>, type |-> "rectangle", pos |-> <<40, 0, <<4, 2>>>>]
          ELSE [id |-> <<"q">>, type |-> "rectangle", pos |-> <<40, 0, <<4, 2>>>>,
                z |-> qz]>>,
     connectors |-> <<[from |-> <<"q">>, to |-> <<"p">>]>>]

DocEmpty == [shapes |-> <<>>, connectors |-> <<>>]

LayoutDocs ==
    {DocCorner, DocDiagonal, DocOblique, DocSelf, DocLayers(0), DocLayers(3),
     DocEmpty}

\* ------------------------------------------------------------------------
\* State
\* ------------------------------------------------------------------------

VARIABLES
    doc,        \* the diagram file's content
    state_file, \* the .state.json next to it
    canvas,     \* identifiers of the elements on the canvas server
    next_id,    \* the next identifier the server assigns
    pc,         \* where the push is: idle | list | apply | clear | createAll
                \* or how it ended: done | aborted | rejected
    clear,      \* push's clear argument (of the innermost invocation)
    compiled,   \* push's locals yaml_entries, skeletons, group_map (or err)
    old_state,  \* push's local old_state
    plan,       \* push's locals to_create, to_update, to_delete, unchanged
    di,         \* position in the delete loops (lines 509-520)
    calls,      \* the client calls of this invocation, in order
    fallback,   \* the invocation took the stale fallback (line 506)
    file0,      \* state_file when the invocation began
    canvas0,    \* canvas when the invocation began
    synced,     \* <<document of the last successful push>> while nothing
                \* touched the canvas or aborted since; else <<>>
    prev,       \* synced when the invocation began
    retry       \* <<the failed call's op and mode>> when the invocation is the
                \* retry of an aborted one (PushOrRetry), else <<>>

vars == <<doc, state_file, canvas, next_id, pc, clear, compiled, old_state,
          plan, di, calls, fallback, file0, canvas0, synced, prev, retry>>

\* Identifiers of canvas objects created by other clients.
ForeignIds == {0}

\* created[i].get("id", "") of a response element without an id.
NoId == -1

Terminal == {"idle", "done", "aborted", "rejected"}

Call(op, eid, batch, resp, ok) ==
    [op |-> op, eid |-> eid, batch |-> batch, resp |-> resp, ok |-> ok]

\* The locals before push has assigned them.
NotCompiled == [err |-> "not compiled"]

NoPlan == [to_create |-> <<>>, to_update |-> <<>>, to_delete |-> <<>>,
           unchanged |-> <<>>]

\* DeleteQueue holding the objects of unchanged entries as well.
DeleteQueue_IncludesUnchanged ==
    [i \in DOMAIN plan.to_delete |-> plan.to_delete[i][2]]
    \o [i \in DOMAIN plan.to_update |->
           old_state.mappings.val[plan.to_update[i][1]].excalidraw_id]
    \o [i \in DOMAIN plan.unchanged |->
           old_state.mappings.val[plan.unchanged[i]].excalidraw_id]

\* The identifiers the two delete loops address, in order.
DeleteQueue ==
    [i \in DOMAIN plan.to_delete |-> plan.to_delete[i][2]]
    \o [i \in DOMAIN plan.to_update |->
           old_state.mappings.val[plan.to_update[i][1]].excalidraw_id]

\* The batch-create call without waiting for the delete loop.
DeletesDone_Always == TRUE

\* The delete loops (lines 508-520) have run to their end.
DeletesDone == di > Len(DeleteQueue)

\* batch_ids (lines 523-527): (yaml id, hash) of creates then updates.
BatchIds ==
    LET both == plan.to_create \o plan.to_update
    IN  [i \in DOMAIN both |-> <<both[i][1], both[i][3]>>]

YamlIdsOf(batch_ids) == [i \in DOMAIN batch_ids |-> batch_ids[i][1]]

\* The server's answer to a batch of n skeletons: n fresh identifiers in
\* request order.
FreshIds(n) == [i \in 1..n |-> next_id + i - 1]

\* keep_unchanged carrying every mapping of the old state over.
keep_unchanged_KeepsAll(unchanged, old, d) == old.mappings

RECURSIVE keep_unchanged(_, _, _)
keep_unchanged(unchanged, old, d) ==
    IF unchanged = <<>> THEN d
    ELSE keep_unchanged(Tail(unchanged), old,
                        DictSet(d, Head(unchanged), old.mappings.val[Head(unchanged)]))

\* add_created reading the first identifier of the response for every
\* element of the batch.
RECURSIVE add_created_FirstId(_, _, _, _)
add_created_FirstId(batch_ids, created, i, d) ==
    IF i > Len(batch_ids) THEN d
    ELSE add_created_FirstId(batch_ids, created, i + 1,
            DictSet(d, batch_ids[i][1],
                    [excalidraw_id |-> IF 1 <= Len(created) THEN created[1] ELSE NoId,
                     hash |-> batch_ids[i][2]]))

RECURSIVE add_created(_, _, _, _)
add_created(batch_ids, created, i, d) ==
    IF i > Len(batch_ids) THEN d
    ELSE add_created(batch_ids, created, i + 1,
            DictSet(d, batch_ids[i][1],
                    [excalidraw_id |-> IF i <= Len(created) THEN created[i] ELSE NoId,
                     hash |-> batch_ids[i][2]]))

\* Lines 533-545.
NewState(unchanged, batch_ids, created, old) ==
    [mappings |-> add_created(batch_ids, created, 1,
                              keep_unchanged(unchanged, old, EmptyDict))]

RECURSIVE fresh_mappings(_, _, _, _, _)
fresh_mappings(yaml_ids, created, c, i, d) ==
    IF i > Len(yaml_ids) THEN d
    ELSE fresh_mappings(yaml_ids, created, c, i + 1,
            DictSet(d, yaml_ids[i],
                    [excalidraw_id |-> created[i],
                     hash |-> compute_hash(c.yaml_entries.val[yaml_ids[i]],
                                           GroupInfo(c.group_map, yaml_ids[i]))]))

\* FreshState reading the response from its end.
FreshState_ReversedIds(yaml_ids, created, c) ==
    [mappings |->
        fresh_mappings(yaml_ids,
                       [i \in DOMAIN created |-> created[Len(created) + 1 - i]],
                       c, 1, EmptyDict)]

\* FreshState hashing the entries without their group information.
FreshState_NoGroupInfo(yaml_ids, created, c) ==
    [mappings |->
        [keys |-> yaml_ids,
         val  |-> [y \in Range(yaml_ids) |->
                     [excalidraw_id |-> created[CHOOSE i \in DOMAIN yaml_ids : yaml_ids[i] = y],
                      hash |-> compute_hash(c.yaml_entries.val[y], <<>>)]]]]

\* Lines 478-485.
FreshState(yaml_ids, created, c) ==
    [mappings |-> fresh_mappings(yaml_ids, created, c, 1, EmptyDict)]

TypeOK ==
    /\ doc \in Docs \cup MoreDocs \cup LayoutDocs
    /\ pc \in Terminal \cup {"list", "apply", "clear", "createAll"}
    /\ clear \in BOOLEAN /\ fallback \in BOOLEAN
    /\ next_id \in 1..(MaxId + 1)
    /\ canvas \subseteq (1..MaxId) \cup ForeignIds

Init ==
    /\ doc \in Docs
    /\ state_file = EmptyState
    /\ canvas = {}
    /\ next_id = 1
    /\ pc = "idle"
    /\ clear = FALSE
    /\ compiled = NotCompiled
    /\ old_state = EmptyState
    /\ plan = NoPlan
    /\ di = 1
    /\ calls = <<>>
    /\ fallback = FALSE
    /\ file0 = EmptyState
    /\ canvas0 = {}
    /\ synced = <<>>
    /\ prev = <<>>
    /\ retry = <<>>

\* ------------------------------------------------------------------------
\* push(yaml_path, client, clear)
\* ------------------------------------------------------------------------

\* Lines 434-497: read, validate, compile; in incremental mode load the
\* state and diff.  A validation or compilation error ends the invocation.
Begin(flag) ==
    /\ pc \in Terminal
    /\ compiled' = Compile(doc)
    /\ IF compiled'.err # ""
       THEN /\ pc' = "rejected"
            /\ old_state' = EmptyState
            /\ plan' = NoPlan
       ELSE /\ next_id + Len(compiled'.yaml_entries.keys) - 1 <= MaxId
            /\ IF flag
               THEN /\ pc' = "clear"
                    /\ old_state' = EmptyState
                    /\ plan' = NoPlan
               ELSE /\ old_state' = state_file
                    /\ plan' = compute_diff(compiled'.yaml_entries, state_file,
                                            compiled'.group_map)
                    /\ pc' = IF plan'.unchanged # <<>> THEN "list" ELSE "apply"
    /\ clear' = flag
    /\ di' = 1
    /\ calls' = <<>>
    /\ fallback' = FALSE
    /\ file0' = state_file
    /\ canvas0' = canvas
    /\ prev' = synced
    /\ UNCHANGED <<doc, state_file, canvas, next_id, synced>>

StartPush(flag) ==
    /\ Begin(flag)
    /\ retry' = <<>>

\* The same invocation, remembering the failed call when it is started
\* right after an aborted one, nothing having happened in between.
PushOrRetry(flag) ==
    /\ Begin(flag)
    /\ retry' = IF pc = "aborted"
                THEN <<[op |-> calls[Len(calls)].op, clear |-> clear]>>
                ELSE <<>>

Abort(call) ==
    /\ pc' = "aborted"
    /\ calls' = Append(calls, call)
    /\ synced' = <<>>
    /\ UNCHANGED <<doc, state_file, canvas, next_id, clear, compiled,
                   old_state, plan, di, fallback, file0, canvas0, prev, retry>>

\* ListElements without the stale check.
ListElements_NoStaleCheck ==
    /\ pc = "list"
    /\ \/ Abort(Call("list", 0, <<>>, <<>>, FALSE))
       \/ /\ calls' = Append(calls, Call("list", 0, <<>>, <<>>, TRUE))
          /\ pc' = "apply"
          /\ UNCHANGED <<doc, state_file, canvas, next_id, clear, compiled,
                         old_state, plan, di, fallback, file0, canvas0,
                         synced, prev, retry>>

\* ListElements checking every mapping of the old state, not only those of
\* unchanged entries.
ListElements_ChecksAll ==
    /\ pc = "list"
    /\ \/ Abort(Call("list", 0, <<>>, <<>>, FALSE))
       \/ LET server_ids == canvas
              is_stale(yid) ==
                  old_state.mappings.val[yid].excalidraw_id \notin server_ids
              stale == SelectSeq(old_state.mappings.keys, is_stale)
          IN  /\ calls' = Append(calls, Call("list", 0, <<>>, <<>>, TRUE))
              /\ IF stale # <<>>
                 THEN pc' = "clear" /\ clear' = TRUE /\ fallback' = TRUE
                 ELSE pc' = "apply" /\ UNCHANGED <<clear, fallback>>
              /\ UNCHANGED <<doc, state_file, canvas, next_id, compiled,
                             old_state, plan, di, file0, canvas0, synced, prev, retry>>

\* ListElements restarting the push at the listing when it finds a stale
\* entry.
ListElements_FallbackRelists ==
    /\ pc = "list"
    /\ \/ Abort(Call("list", 0, <<>>, <<>>, FALSE))
       \/ LET server_ids == canvas
              is_stale(yid) ==
                  old_state.mappings.val[yid].excalidraw_id \notin server_ids
              stale == SelectSeq(plan.unchanged, is_stale)
          IN  /\ calls' = Append(calls, Call("list", 0, <<>>, <<>>, TRUE))
              /\ IF stale # <<>>
                 THEN pc' = "list" /\ clear' = TRUE /\ fallback' = TRUE
                 ELSE pc' = "apply" /\ UNCHANGED <<clear, fallback>>
              /\ UNCHANGED <<doc, state_file, canvas, next_id, compiled,
                             old_state, plan, di, file0, canvas0, synced, prev, retry>>

\* Lines 499-506: the listing call and the stale check; a stale unchanged
\* element restarts the push with clear=True.
ListElements ==
    /\ pc = "list"
    /\ \/ Abort(Call("list", 0, <<>>, <<>>, FALSE))
       \/ LET server_ids == canvas
              is_stale(yid) ==
                  old_state.mappings.val[yid].excalidraw_id \notin server_ids
              stale == SelectSeq(plan.unchanged, is_stale)
          IN  /\ calls' = Append(calls, Call("list", 0, <<>>, <<>>, TRUE))
              /\ IF stale # <<>>
                 THEN pc' = "clear" /\ clear' = TRUE /\ fallback' = TRUE
                 ELSE pc' = "apply" /\ UNCHANGED <<clear, fallback>>
              /\ UNCHANGED <<doc, state_file, canvas, next_id, compiled,
                             old_state, plan, di, file0, canvas0, synced, prev, retry>>

\* DeleteElement ending the invocation on a not-found answer.
DeleteElement_NotFoundAborts ==
    /\ pc = "apply"
    /\ di <= Len(DeleteQueue)
    /\ LET eid == DeleteQueue[di]
       IN  \/ /\ eid \in canvas
              /\ \/ /\ canvas' = canvas \ {eid}
                    /\ calls' = Append(calls, Call("delete", eid, <<>>, <<>>, TRUE))
                 \/ /\ canvas' = canvas
                    /\ calls' = Append(calls, Call("delete", eid, <<>>, <<>>, FALSE))
              /\ di' = di + 1
              /\ UNCHANGED <<doc, state_file, next_id, pc, clear, compiled,
                             old_state, plan, fallback, file0, canvas0,
                             synced, prev, retry>>
           \/ /\ eid \notin canvas
              /\ Abort(Call("delete", eid, <<>>, <<>>, FALSE))

\* DeleteElement ending the invocation when the call fails.
DeleteElement_FailureAborts ==
    /\ pc = "apply"
    /\ di <= Len(DeleteQueue)
    /\ LET eid == DeleteQueue[di]
       IN  \/ /\ eid \in canvas
              /\ canvas' = canvas \ {eid}
              /\ calls' = Append(calls, Call("delete", eid, <<>>, <<>>, TRUE))
              /\ di' = di + 1
              /\ UNCHANGED <<doc, state_file, next_id, pc, clear, compiled,
                             old_state, plan, fallback, file0, canvas0,
                             synced, prev, retry>>
           \/ Abort(Call("delete", eid, <<>>, <<>>, FALSE))

\* Lines 508-520: one delete call of the two loops; an exception (not
\* found, server error, transport) is swallowed.
DeleteElement ==
    /\ pc = "apply"
    /\ di <= Len(DeleteQueue)
    /\ LET eid == DeleteQueue[di]
       IN  \/ /\ eid \in canvas
              /\ canvas' = canvas \ {eid}
              /\ calls' = Append(calls, Call("delete", eid, <<>>, <<>>, TRUE))
           \/ /\ canvas' = canvas
              /\ calls' = Append(calls, Call("delete", eid, <<>>, <<>>, FALSE))
    /\ di' = di + 1
    /\ UNCHANGED <<doc, state_file, next_id, pc, clear, compiled, old_state,
                   plan, fallback, file0, canvas0, synced, prev, retry>>

\* CreateElements putting its batch in the place of what the canvas held.
CreateElements_ReplacesCanvas ==
    /\ pc = "apply"
    /\ DeletesDone
    /\ \/ /\ BatchIds = <<>>
          /\ state_file' = NewState(plan.unchanged, BatchIds, <<>>, old_state)
          /\ pc' = "done"
          /\ synced' = <<doc>>
          /\ UNCHANGED <<doc, canvas, next_id, clear, compiled, old_state, plan,
                         di, calls, fallback, file0, canvas0, prev, retry>>
       \/ /\ BatchIds # <<>>
          /\ Abort(Call("create", 0, YamlIdsOf(BatchIds), <<>>, FALSE))
       \/ /\ BatchIds # <<>>
          /\ LET created == FreshIds(Len(BatchIds))
             IN  /\ canvas' = Range(created)
                 /\ next_id' = next_id + Len(created)
                 /\ calls' = Append(calls, Call("create", 0, YamlIdsOf(BatchIds),
                                                created, TRUE))
                 /\ state_file' = NewState(plan.unchanged, BatchIds, created, old_state)
          /\ pc' = "done"
          /\ synced' = <<doc>>
          /\ UNCHANGED <<doc, clear, compiled, old_state, plan, di, fallback,
                         file0, canvas0, prev, retry>>

\* Lines 522-546: the batch-create call (none for an empty batch), the
\* new mappings and save_state.
CreateElements ==
    /\ pc = "apply"
    /\ DeletesDone
    /\ \/ /\ BatchIds = <<>>
          /\ state_file' = NewState(plan.unchanged, BatchIds, <<>>, old_state)
          /\ pc' = "done"
          /\ synced' = <<doc>>
          /\ UNCHANGED <<doc, canvas, next_id, clear, compiled, old_state, plan,
                         di, calls, fallback, file0, canvas0, prev, retry>>
       \/ /\ BatchIds # <<>>
          /\ Abort(Call("create", 0, YamlIdsOf(BatchIds), <<>>, FALSE))
       \/ /\ BatchIds # <<>>
          /\ LET created == FreshIds(Len(BatchIds))
             IN  /\ canvas' = canvas \cup Range(created)
                 /\ next_id' = next_id + Len(created)
                 /\ calls' = Append(calls, Call("create", 0, YamlIdsOf(BatchIds),
                                                created, TRUE))
                 /\ state_file' = NewState(plan.unchanged, BatchIds, created, old_state)
          /\ pc' = "done"
          /\ synced' = <<doc>>
          /\ UNCHANGED <<doc, clear, compiled, old_state, plan, di, fallback,
                         file0, canvas0, prev, retry>>

\* ClearCanvas sparing the elements of other clients.
ClearCanvas_SparesForeign ==
    /\ pc = "clear"
    /\ \/ Abort(Call("clear", 0, <<>>, <<>>, FALSE))
       \/ /\ canvas' = canvas \cap ForeignIds
          /\ calls' = Append(calls, Call("clear", 0, <<>>, <<>>, TRUE))
          /\ pc' = "createAll"
          /\ UNCHANGED <<doc, state_file, next_id, clear, compiled, old_state,
                         plan, di, fallback, file0, canvas0, synced, prev, retry>>

\* ClearCanvas resetting the state file together with the canvas.
ClearCanvas_ResetsState ==
    /\ pc = "clear"
    /\ \/ Abort(Call("clear", 0, <<>>, <<>>, FALSE))
       \/ /\ canvas' = {}
          /\ state_file' = EmptyState
          /\ calls' = Append(calls, Call("clear", 0, <<>>, <<>>, TRUE))
          /\ pc' = "createAll"
          /\ UNCHANGED <<doc, next_id, clear, compiled, old_state,
                         plan, di, fallback, file0, canvas0, synced, prev, retry>>

\* Line 472: client.clear() removes every element of the canvas.
ClearCanvas ==
    /\ pc = "clear"
    /\ \/ Abort(Call("clear", 0, <<>>, <<>>, FALSE))
       \/ /\ canvas' = {}
          /\ calls' = Append(calls, Call("clear", 0, <<>>, <<>>, TRUE))
          /\ pc' = "createAll"
          /\ UNCHANGED <<doc, state_file, next_id, clear, compiled, old_state,
                         plan, di, fallback, file0, canvas0, synced, prev, retry>>

\* Lines 474-486: one batch with every entry's skeleton, a fresh state.
CreateAll ==
    /\ pc = "createAll"
    /\ LET yaml_ids == compiled.yaml_entries.keys
       IN  \/ Abort(Call("create", 0, yaml_ids, <<>>, FALSE))
           \/ LET created == FreshIds(Len(yaml_ids))
              IN  /\ canvas' = canvas \cup Range(created)
                  /\ next_id' = next_id + Len(created)
                  /\ calls' = Append(calls, Call("create", 0, yaml_ids, created, TRUE))
                  /\ state_file' = FreshState(yaml_ids, created, compiled)
                  /\ pc' = "done"
                  /\ synced' = <<doc>>
                  /\ UNCHANGED <<doc, clear, compiled, old_state, plan, di,
                                 fallback, file0, canvas0, prev, retry>>

\* ------------------------------------------------------------------------
\* Between invocations: the user edits the file; the canvas changes out of
\* band (another client adds or deletes an element, the canvas is cleared)
\* ------------------------------------------------------------------------

Forget ==
    /\ pc' = "idle"
    /\ clear' = FALSE
    /\ compiled' = NotCompiled
    /\ old_state' = EmptyState
    /\ plan' = NoPlan
    /\ di' = 1
    /\ calls' = <<>>
    /\ fallback' = FALSE
    /\ file0' = EmptyState
    /\ canvas0' = {}
    /\ prev' = <<>>
    /\ retry' = <<>>

EditDocument(d) ==
    /\ pc \in Terminal
    /\ d # doc
    /\ doc' = d
    /\ Forget
    /\ UNCHANGED <<state_file, canvas, next_id, synced>>

ForeignCreate(e) ==
    /\ pc \in Terminal
    /\ e \notin canvas
    /\ canvas' = canvas \cup {e}
    /\ synced' = <<>>
    /\ Forget
    /\ UNCHANGED <<doc, state_file, next_id>>

CanvasDelete(e) ==
    /\ pc \in Terminal
    /\ e \in canvas
    /\ canvas' = canvas \ {e}
    /\ synced' = <<>>
    /\ Forget
    /\ UNCHANGED <<doc, state_file, next_id>>

\* cmd_clear: the CLI's clear command, or a restart of the canvas server.
CanvasClear ==
    /\ pc \in Terminal
    /\ canvas # {}
    /\ canvas' = {}
    /\ synced' = <<>>
    /\ Forget
    /\ UNCHANGED <<doc, state_file, next_id>>

Next ==
    \/ \E flag \in BOOLEAN : StartPush(flag)
    \/ ListElements
    \/ DeleteElement
    \/ CreateElements
    \/ ClearCanvas
    \/ CreateAll
    \/ \E d \in Docs : EditDocument(d)
    \/ \E e \in ForeignIds : ForeignCreate(e)
    \/ \E e \in canvas : CanvasDelete(e)
    \/ CanvasClear

Spec == Init /\ [][Next]_vars

\* ------------------------------------------------------------------------
\* One author and one canvas: the document is edited between pushes, a
\* push that aborted is run again, nobody else touches the canvas
\* ------------------------------------------------------------------------

DocInit ==
    /\ doc \in MoreDocs
    /\ state_file = EmptyState
    /\ canvas = {}
    /\ next_id = 1
    /\ pc = "idle"
    /\ clear = FALSE
    /\ compiled = NotCompiled
    /\ old_state = EmptyState
    /\ plan = NoPlan
    /\ di = 1
    /\ calls = <<>>
    /\ fallback = FALSE
    /\ file0 = EmptyState
    /\ canvas0 = {}
    /\ synced = <<>>
    /\ prev = <<>>
    /\ retry = <<>>

DocNext ==
    \/ \E flag \in BOOLEAN : PushOrRetry(flag)
    \/ ListElements
    \/ DeleteElement
    \/ CreateElements
    \/ ClearCanvas
    \/ CreateAll
    \/ \E d \in MoreDocs : Revision(doc, d) /\ EditDocument(d)

DocSpec == DocInit /\ [][DocNext]_vars

\* Pushes of the layout documents, on a canvas that another client may
\* have drawn on.
LayoutInit ==
    /\ doc \in LayoutDocs
    /\ state_file = EmptyState
    /\ canvas \in SUBSET ForeignIds
    /\ next_id = 1
    /\ pc = "idle"
    /\ clear = FALSE
    /\ compiled = NotCompiled
    /\ old_state = EmptyState
    /\ plan = NoPlan
    /\ di = 1
    /\ calls = <<>>
    /\ fallback = FALSE
    /\ file0 = EmptyState
    /\ canvas0 = {}
    /\ synced = <<>>
    /\ prev = <<>>
    /\ retry = <<>>

LayoutNext ==
    \/ \E flag \in BOOLEAN : StartPush(flag)
    \/ ListElements
    \/ DeleteElement
    \/ CreateElements
    \/ ClearCanvas
    \/ CreateAll
    \/ \E d \in LayoutDocs : EditDocument(d)

LayoutSpec == LayoutInit /\ [][LayoutNext]_vars

\* A server that answers a batch-create with fewer elements than were
\* requested: it created the first m of them.

\* Lines 529-546 on a short answer: the entries beyond the answer are
\* mapped to "" and the state is saved.
ShortCreateElements ==
    /\ pc = "apply"
    /\ DeletesDone
    /\ BatchIds # <<>>
    /\ \E m \in 0..(Len(BatchIds) - 1) :
          LET created == FreshIds(m)
          IN  /\ canvas' = canvas \cup Range(created)
              /\ next_id' = next_id + m
              /\ calls' = Append(calls, Call("create", 0, YamlIdsOf(BatchIds),
                                             created, TRUE))
              /\ state_file' = NewState(plan.unchanged, BatchIds, created, old_state)
    /\ pc' = "done"
    /\ synced' = <<doc>>
    /\ UNCHANGED <<doc, clear, compiled, old_state, plan, di, fallback,
                   file0, canvas0, prev, retry>>

\* Lines 476-486 on a short answer: created[i] raises IndexError before
\* save_state is reached.
ShortCreateAll ==
    /\ pc = "createAll"
    /\ compiled.yaml_entries.keys # <<>>
    /\ \E m \in 0..(Len(compiled.yaml_entries.keys) - 1) :
          LET created == FreshIds(m)
          IN  /\ canvas' = canvas \cup Range(created)
              /\ next_id' = next_id + m
              /\ calls' = Append(calls, Call("create", 0, compiled.yaml_entries.keys,
                                             created, TRUE))
    /\ pc' = "aborted"
    /\ synced' = <<>>
    /\ UNCHANGED <<doc, state_file, clear, compiled, old_state, plan, di,
                   fallback, file0, canvas0, prev, retry>>

ShortNext ==
    \/ \E flag \in BOOLEAN : StartPush(flag)
    \/ ListElements
    \/ DeleteElement
    \/ CreateElements
    \/ ShortCreateElements
    \/ ClearCanvas
    \/ CreateAll
    \/ ShortCreateAll
    \/ \E d \in Docs : EditDocument(d)

ShortSpec == Init /\ [][ShortNext]_vars

\* ------------------------------------------------------------------------
\* Properties
\* ------------------------------------------------------------------------

\* An invocation that passed validation and compilation is running or has
\* just ended.
InPush == pc \in {"list", "apply", "clear", "createAll", "done", "aborted"}

\* ... and it was started in incremental mode (clear=False).
Incremental == InPush /\ (~clear \/ fallback)

\* ... and it was started with clear=True.
ExplicitClear == InPush /\ clear /\ ~fallback

SeqSet(s) == {s[i] : i \in DOMAIN s}

NoDuplicates(s) == \A i, j \in DOMAIN s : s[i] = s[j] => i = j

YamlIds == compiled.yaml_entries.keys

Fingerprint(yid) ==
    compute_hash(compiled.yaml_entries.val[yid],
                 GroupInfo(compiled.group_map, yid))

Created   == SeqSet([i \in DOMAIN plan.to_create |-> plan.to_create[i][1]])
Updated   == SeqSet([i \in DOMAIN plan.to_update |-> plan.to_update[i][1]])
Deleted   == SeqSet([i \in DOMAIN plan.to_delete |-> plan.to_delete[i][1]])
Unchanged == SeqSet(plan.unchanged)

CallsOf(op) == SelectSeq(calls, LAMBDA c : c.op = op)

RemoteIds(state) ==
    {state.mappings.val[y].excalidraw_id : y \in SeqSet(state.mappings.keys)}

\* C10: the diff of an incremental push partitions the document ids into
\* create (id not in the state), update (in the state, fingerprint differs)
\* and unchanged (in the state, fingerprint equal), each id listed once;
\* delete is exactly the state ids absent from the document; the four
\* classes are pairwise disjoint.
C10_DiffIsPartition ==
    Incremental =>
        LET doc_ids   == SeqSet(YamlIds)
            state_ids == SeqSet(old_state.mappings.keys)
            old_hash(y) == old_state.mappings.val[y].hash
        IN  /\ Created = {y \in doc_ids : y \notin state_ids}
            /\ Updated = {y \in doc_ids : y \in state_ids /\ old_hash(y) # Fingerprint(y)}
            /\ Unchanged = {y \in doc_ids : y \in state_ids /\ old_hash(y) = Fingerprint(y)}
            /\ Deleted = state_ids \ doc_ids
            /\ Created \cup Updated \cup Unchanged = doc_ids
            /\ Created \cap Updated = {} /\ Created \cap Unchanged = {}
            /\ Updated \cap Unchanged = {} /\ Deleted \cap doc_ids = {}
            /\ Len(plan.to_create) = Cardinality(Created)
            /\ Len(plan.to_update) = Cardinality(Updated)
            /\ Len(plan.unchanged) = Cardinality(Unchanged)
            /\ Len(plan.to_delete) = Cardinality(Deleted)

\* A diff in which all four classes occur.
C10_Witness ==
    /\ Incremental
    /\ Created # {} /\ Updated # {} /\ Unchanged # {} /\ Deleted # {}

\* C1: a push that begins right after a successful push of the same
\* document, with the state file and the canvas untouched in between,
\* classifies every entry unchanged, issues only the listing call, does not
\* fall back, and (once done) leaves the same id -> {remote identifier,
\* fingerprint} mappings in the state file.
C1_Idempotent ==
    (Incremental /\ prev = <<doc>>) =>
        /\ Unchanged = SeqSet(YamlIds)
        /\ Created = {} /\ Updated = {} /\ Deleted = {}
        /\ ~fallback
        /\ \A i \in DOMAIN calls : calls[i].op = "list"
        /\ state_file.mappings.val = file0.mappings.val
        /\ pc = "aborted" => ~calls[Len(calls)].ok

\* The second push of a three-entry document has completed.
C1_Witness ==
    /\ pc = "done" /\ ~clear /\ prev = <<doc>>
    /\ Len(YamlIds) >= 3
    /\ Len(calls) = 1 /\ calls[1].op = "list" /\ calls[1].ok
    /\ Cardinality(RemoteIds(state_file)) = Len(YamlIds)

\* C2: while a push runs and when it has aborted, the state file is what
\* it was when the push started; a failed listing, clear or batch-create
\* call is the last call of the invocation and leaves it aborted.
C2_StateUntouchedUnlessDone ==
    /\ (InPush /\ pc # "done") => state_file = file0
    /\ \A i \in DOMAIN calls :
          (calls[i].op \in {"list", "clear", "create"} /\ ~calls[i].ok)
              => (pc = "aborted" /\ i = Len(calls))

\* A stale fallback whose batch-create failed after the canvas was cleared,
\* with a non-empty state file.
C2_Witness ==
    /\ pc = "aborted" /\ fallback
    /\ calls[Len(calls)].op = "create"
    /\ file0 # EmptyState /\ state_file = file0
    /\ canvas # canvas0

\* Some unchanged entry's recorded remote identifier was not on the canvas
\* when the invocation began (the canvas does not change before the
\* listing call).
StaleAtStart ==
    \E i \in DOMAIN plan.unchanged :
        old_state.mappings.val[plan.unchanged[i]].excalidraw_id \notin canvas0

ListedOk == Len(calls) >= 1 /\ calls[1].op = "list" /\ calls[1].ok

\* The state file maps the document's entries, in batch order, to the
\* identifiers of the response resp and to their current fingerprints.
IsFreshState(resp) ==
    /\ state_file.mappings.keys = YamlIds
    /\ Len(resp) = Len(YamlIds)
    /\ \A i \in DOMAIN YamlIds :
          state_file.mappings.val[YamlIds[i]] =
              [excalidraw_id |-> resp[i], hash |-> Fingerprint(YamlIds[i])]

\* C3: in an incremental push whose listing succeeded, a stale unchanged
\* entry means: the invocation falls back, issues no delete call, and its
\* calls after the listing are clear followed by one batch-create of every
\* document entry, after which the state is the fresh one; without a stale
\* unchanged entry there is no fallback and no clear call.
C3_StaleFallback ==
    Incremental =>
        /\ (StaleAtStart /\ ListedOk) =>
              /\ fallback
              /\ pc \in {"clear", "createAll", "done", "aborted"}
              /\ CallsOf("delete") = <<>>
              /\ Len(calls) <= 3
              /\ Len(calls) >= 2 => calls[2].op = "clear"
              /\ Len(calls) >= 3 => (calls[3].op = "create" /\ calls[3].batch = YamlIds)
              /\ pc = "done" => (Len(calls) = 3 /\ IsFreshState(calls[3].resp))
        /\ ~StaleAtStart => (~fallback /\ CallsOf("clear") = <<>>)

\* A fallback push of a three-entry document has completed.
C3_Witness ==
    /\ Incremental /\ StaleAtStart /\ pc = "done"
    /\ Len(YamlIds) >= 3
    /\ Cardinality(Unchanged) = 1

\* C4 as stated: whenever the state file references a remote identifier
\* that is not on the canvas, whatever the class of its entry, the push
\* falls back to clear + recreate.
C4_AnyMissingIdentifierRecreates ==
    (Incremental /\ pc = "done" /\ ~(RemoteIds(file0) \subseteq canvas0)) =>
        (fallback /\ CallsOf("clear") # <<>>)

\* C4, amended: a successful incremental push falls back to clear +
\* recreate exactly when the missing identifier belongs to an entry
\* classified unchanged, and then its calls are list, clear, batch-create
\* of every entry and the canvas holds exactly the freshly mapped objects;
\* when only update- or delete-classified entries miss their objects the
\* push stays incremental.  Either way the new state covers every document
\* entry with distinct identifiers that are on the canvas.
C4_StaleUnchangedRecreates ==
    (Incremental /\ pc = "done") =>
        /\ fallback <=> StaleAtStart
        /\ StaleAtStart =>
              /\ Len(calls) = 3
              /\ calls[1].op = "list" /\ calls[2].op = "clear"
              /\ calls[3].op = "create" /\ calls[3].batch = YamlIds
              /\ IsFreshState(calls[3].resp)
              /\ RemoteIds(state_file) = canvas
              /\ RemoteIds(state_file) \cap (RemoteIds(file0) \cup canvas0) = {}
        /\ ~StaleAtStart => CallsOf("clear") = <<>>
        /\ SeqSet(state_file.mappings.keys) = SeqSet(YamlIds)
        /\ RemoteIds(state_file) \subseteq canvas
        /\ Cardinality(RemoteIds(state_file)) = Len(YamlIds)

\* A fallback has completed for a state that also recorded an entry that
\* is no longer in the document.
C4_Witness ==
    /\ Incremental /\ pc = "done" /\ StaleAtStart /\ fallback
    /\ Deleted # {}
    /\ Len(YamlIds) >= 2

\* C5 as stated: an element another client created, on the canvas when a
\* push begins, is still there throughout and after the push, in any mode.
C5_ForeignNeverTouched ==
    InPush => (canvas0 \cap ForeignIds) \subseteq canvas

\* C5, amended: until a clear call succeeds, a push keeps every element of
\* another client on the canvas, and each delete call addresses an
\* identifier recorded in the state file; an incremental push that does not
\* fall back never calls clear; a successful clear call (explicit
\* full-recreate or fallback) leaves no element of another client.
C5_ForeignKeptUnlessCleared ==
    InPush =>
        LET cleared == \E i \in DOMAIN calls : calls[i].op = "clear" /\ calls[i].ok
        IN  /\ ~cleared => (canvas0 \cap ForeignIds) \subseteq canvas
            /\ \A i \in DOMAIN calls :
                  calls[i].op = "delete" => calls[i].eid \in RemoteIds(file0)
            /\ ~clear => CallsOf("clear") = <<>>
            /\ cleared => canvas \cap ForeignIds = {}

\* An incremental push that deleted and created has completed next to an
\* element of another client.
C5_Witness ==
    /\ pc = "done" /\ ~clear
    /\ canvas0 \cap ForeignIds # {}
    /\ \E i \in DOMAIN calls : calls[i].op = "delete" /\ calls[i].ok
    /\ CallsOf("create") # <<>>

\* The last successful push was of shapes a, b and the connector a -> b;
\* since then only b's position was edited, and an incremental push of
\* the edited document is under way.
MovedEndpoint ==
    /\ Incremental
    /\ \E x, x2 \in {20, 40} :
          x # x2 /\ prev = <<DocAB(x)>> /\ doc = DocAB(x2)

\* C6: when only b moved, b and the connector a -> b are classified
\* update, a is classified unchanged, nothing is created or deleted.
C6_MovedEndpointUpdatesConnector ==
    MovedEndpoint =>
        /\ Updated = {<<"b">>, ConnectorId(ConnAB)}
        /\ Unchanged = {<<"a">>}
        /\ Created = {}
        /\ Deleted = {}

\* The remote identifiers the delete loops must address: those the state
\* file held for the delete- and update-classified entries.
OldIdsToDelete ==
    {file0.mappings.val[y].excalidraw_id : y \in Deleted \cup Updated}

\* C7: in an incremental push that does not fall back, every delete call
\* precedes the batch-create call; the delete calls address, one each, the
\* old remote identifiers of the delete- and update-classified entries, and
\* all of them have been issued once the batch-create call is issued or the
\* push is done; there is at most one batch-create call, holding exactly
\* the create- and update-classified entries, and none when both classes
\* are empty.
C7_DeletesBeforeCreate ==
    (Incremental /\ ~fallback) =>
        LET dels    == CallsOf("delete")
            creates == CallsOf("create")
            issued  == {dels[i].eid : i \in DOMAIN dels}
        IN  /\ \A i, j \in DOMAIN calls :
                  (calls[i].op = "delete" /\ calls[j].op = "create") => i < j
            /\ issued \subseteq OldIdsToDelete
            /\ Cardinality(issued) = Len(dels)
            /\ (creates # <<>> \/ pc = "done") =>
                  (issued = OldIdsToDelete
                   /\ Len(dels) = Cardinality(Deleted) + Cardinality(Updated))
            /\ Len(creates) <= 1
            /\ \A i \in DOMAIN creates :
                  /\ SeqSet(creates[i].batch) = Created \cup Updated
                  /\ Len(creates[i].batch) = Cardinality(Created \cup Updated)
            /\ (Created \cup Updated = {}) => creates = <<>>
            /\ (pc = "done" /\ Created \cup Updated # {}) => Len(creates) = 1

\* An incremental push has deleted for a removed and for an edited entry
\* and then created.
C7_Witness ==
    /\ pc = "done" /\ ~clear
    /\ Deleted # {} /\ Updated # {} /\ Created # {}
    /\ Len(CallsOf("delete")) >= 2
    /\ calls[Len(calls)].op = "create" /\ calls[Len(calls)].ok

\* The yaml ids of the incremental batch: creates, then updates.
PlanBatch ==
    [i \in DOMAIN plan.to_create |-> plan.to_create[i][1]]
    \o [i \in DOMAIN plan.to_update |-> plan.to_update[i][1]]

\* C8: after a successful incremental push without fallback, the keys of
\* the new mappings are the document ids; an unchanged entry keeps its
\* previous remote identifier and fingerprint; the i-th entry of the batch
\* (creates then updates) has the i-th identifier of the response and its
\* new fingerprint, so the old identifier of an updated entry is gone;
\* deleted ids and their identifiers are absent.
C8_IncrementalStateAssembly ==
    (Incremental /\ ~fallback /\ pc = "done") =>
        LET creates == CallsOf("create")
            resp    == IF creates = <<>> THEN <<>> ELSE creates[1].resp
            keys    == state_file.mappings.keys
            m       == state_file.mappings.val
        IN  /\ SeqSet(keys) = SeqSet(YamlIds)
            /\ NoDuplicates(keys)
            /\ \A y \in Unchanged : m[y] = file0.mappings.val[y]
            /\ creates # <<>> => creates[1].batch = PlanBatch
            /\ Len(resp) = Len(PlanBatch)
            /\ \A i \in DOMAIN PlanBatch :
                  m[PlanBatch[i]] = [excalidraw_id |-> resp[i],
                                     hash |-> Fingerprint(PlanBatch[i])]
            /\ \A y \in Updated :
                  file0.mappings.val[y].excalidraw_id \notin RemoteIds(state_file)
            /\ \A y \in Deleted :
                  /\ y \notin SeqSet(keys)
                  /\ file0.mappings.val[y].excalidraw_id \notin RemoteIds(state_file)

\* An incremental push with entries of all four classes and a batch of at
\* least two has completed.
C8_Witness ==
    /\ Incremental /\ ~fallback /\ pc = "done"
    /\ Unchanged # {} /\ Updated # {} /\ Deleted # {} /\ Created # {}
    /\ Len(PlanBatch) >= 2

\* The number of elements a document authors: top-level shapes and texts,
\* group members, connectors.
ElementCount(d) ==
    LET n(s) == IF IsType(s, "group") THEN Len(s.shapes) ELSE 1
        RECURSIVE sum(_)
        sum(ss) == IF ss = <<>> THEN 0 ELSE n(Head(ss)) + sum(Tail(ss))
    IN  sum(d.shapes) + Len(d.connectors)

\* C9: a full-recreate push (explicit flag or fallback) issues no delete
\* call, and no listing call when the flag is explicit; it calls clear
\* before its single batch-create, whose batch holds one skeleton per
\* document element; when done, the state file's keys are the document
\* ids, each mapped to the response identifier of the same batch index and
\* to its current fingerprint; no id of the previous state that left the
\* document and no previous remote identifier survives, and the canvas
\* holds exactly the mapped objects.
C9_FullRecreate ==
    (InPush /\ clear) =>
        LET creates == CallsOf("create")
        IN  /\ CallsOf("delete") = <<>>
            /\ ~fallback => CallsOf("list") = <<>>
            /\ Len(CallsOf("clear")) <= 1
            /\ Len(creates) <= 1
            /\ \A i \in DOMAIN calls :
                  calls[i].op = "create" =>
                      (i > 1 /\ calls[i - 1].op = "clear" /\ calls[i - 1].ok)
            /\ \A i \in DOMAIN creates :
                  /\ creates[i].batch = YamlIds
                  /\ NoDuplicates(creates[i].batch)
                  /\ Len(creates[i].batch) = ElementCount(doc)
                  /\ DOMAIN compiled.skeletons = SeqSet(creates[i].batch)
            /\ pc = "done" =>
                  /\ Len(creates) = 1
                  /\ IsFreshState(creates[1].resp)
                  /\ \A y \in SeqSet(file0.mappings.keys) \ SeqSet(YamlIds) :
                        y \notin SeqSet(state_file.mappings.keys)
                  /\ RemoteIds(state_file) \cap RemoteIds(file0) = {}
                  /\ Cardinality(RemoteIds(state_file)) = Len(YamlIds)
                  /\ canvas = RemoteIds(state_file)

\* An explicit full-recreate push of a three-element document has
\* completed over a state that recorded other entries and next to an
\* element of another client.
C9_Witness ==
    /\ ExplicitClear /\ pc = "done"
    /\ Len(YamlIds) >= 3
    /\ SeqSet(file0.mappings.keys) \ SeqSet(YamlIds) # {}
    /\ SeqSet(file0.mappings.keys) \cap SeqSet(YamlIds) # {}
    /\ canvas0 \cap ForeignIds # {}

\* The objects on the canvas that the engine created.
ManagedOnCanvas == canvas \ ForeignIds

\* A delete call of this invocation that failed although its object was,
\* and still is, on the canvas: a server or transport failure, not a
\* not-found answer.
FailedWhilePresent(i) ==
    /\ calls[i].op = "delete"
    /\ ~calls[i].ok
    /\ calls[i].eid \in canvas

\* C11: after a successful push every object the engine created that is
\* still on the canvas is mapped by the state file, and the mapping gives
\* each document entry one object of its own.
C11_NoOrphanAfterPush ==
    pc = "done" =>
        /\ ManagedOnCanvas \subseteq RemoteIds(state_file)
        /\ Cardinality(RemoteIds(state_file)) = Len(state_file.mappings.keys)

\* C12: a delete call that fails for another reason than not-found ends
\* the push: the push does not complete, no batch-create follows the
\* failed call, and the state file stays what it was.
C12_DeleteServerErrorIsFatal ==
    InPush =>
        \A i \in DOMAIN calls :
            FailedWhilePresent(i) =>
                /\ pc # "done"
                /\ \A j \in DOMAIN calls : j > i => calls[j].op # "create"
                /\ state_file = file0

\* C13: in an incremental push without fallback a failed delete call does
\* not end the invocation (only a failed listing or batch-create call
\* does); the delete loops continue in order to their end before the
\* batch-create call, and the state written at the end is the one a run
\* without failures writes: the identifier of the failed call is mapped by
\* nothing.
C13_DeleteFailureSwallowed ==
    (Incremental /\ ~fallback) =>
        \A i \in DOMAIN calls :
            (calls[i].op = "delete" /\ ~calls[i].ok) =>
                LET dels    == CallsOf("delete")
                    creates == CallsOf("create")
                IN  /\ pc \in {"apply", "done", "aborted"}
                    /\ pc = "aborted" =>
                          (calls[Len(calls)].op = "create" /\ Len(calls) > i)
                    /\ pc = "apply" => Len(dels) = di - 1
                    /\ (pc # "apply" \/ DeletesDone) =>
                          /\ Len(dels) = Len(DeleteQueue)
                          /\ \A k \in DOMAIN dels : dels[k].eid = DeleteQueue[k]
                    /\ pc = "done" =>
                          /\ BatchIds # <<>> =>
                                (Len(creates) = 1 /\ creates[1].ok
                                 /\ calls[Len(calls)] = creates[1])
                          /\ state_file =
                                NewState(plan.unchanged, BatchIds,
                                         IF creates = <<>> THEN <<>>
                                         ELSE creates[1].resp, file0)
                          /\ calls[i].eid \notin RemoteIds(state_file)

\* An incremental push went on after a delete call that failed with the
\* object still there: a later delete call succeeded, the batch was
\* created and the state was written.
C13_Witness ==
    /\ pc = "done" /\ ~clear
    /\ state_file # file0
    /\ \E i, j, k \in DOMAIN calls :
          /\ i < j /\ j < k
          /\ FailedWhilePresent(i)
          /\ calls[j].op = "delete" /\ calls[j].ok
          /\ calls[k].op = "create" /\ calls[k].ok

\* C14: a push of the same document run right after a push that aborted
\* on a failed listing, clear or batch-create call is never refused and
\* aborts only if one of those calls fails again; when it completes, the
\* state file maps every document entry to an object of its own that is
\* on the canvas.
C14_RetryEndsConsistent ==
    retry # <<>> =>
        /\ retry[1].op \in {"list", "clear", "create"}
        /\ InPush
        /\ pc = "aborted" =>
              (calls[Len(calls)].op \in {"list", "clear", "create"}
               /\ ~calls[Len(calls)].ok)
        /\ pc = "done" =>
              /\ SeqSet(state_file.mappings.keys) = SeqSet(YamlIds)
              /\ NoDuplicates(state_file.mappings.keys)
              /\ RemoteIds(state_file) \subseteq canvas
              /\ Cardinality(RemoteIds(state_file)) = Len(YamlIds)

\* An incremental push was run again and completed after its batch-create
\* call had failed behind the delete calls: the state file it started from
\* still named a deleted object.
C14_Witness ==
    /\ retry # <<>> /\ retry[1].op = "create" /\ ~retry[1].clear
    /\ pc = "done" /\ ~clear
    /\ ~(RemoteIds(file0) \subseteq canvas0)
    /\ Unchanged # {}

\* The same after a clear call that succeeded and a batch-create call that
\* failed: the retry is incremental and takes the fallback.
C14_WitnessAfterClear ==
    /\ retry # <<>> /\ retry[1].op = "create" /\ retry[1].clear
    /\ pc = "done" /\ fallback
    /\ canvas0 = {}

\* The last successful push was of a text and a group of two members;
\* since then only the group's origin was edited, and an incremental push
\* of the edited document is under way.
MovedGroup ==
    /\ Incremental
    /\ \E gx, gx2 \in {0, 10} :
          gx # gx2 /\ prev = <<DocGST(gx)>> /\ doc = DocGST(gx2)

\* C15: when only a group's origin changed, the fingerprint of every
\* member differs from the recorded one and every member is classified
\* update; the text outside the group keeps its fingerprint and is
\* classified unchanged; nothing is created or deleted.
C15_GroupMoveUpdatesMembers ==
    MovedGroup =>
        /\ \A y \in {<<"s">>, <<"t">>} :
              file0.mappings.val[y].hash # Fingerprint(y)
        /\ file0.mappings.val[TextId(0)].hash = Fingerprint(TextId(0))
        /\ Updated = {<<"s">>, <<"t">>}
        /\ Unchanged = {TextId(0)}
        /\ Created = {}
        /\ Deleted = {}

\* The push of the moved group has completed: two deletes, one batch of
\* two.
C15_Witness ==
    /\ MovedGroup /\ pc = "done" /\ ~fallback
    /\ Len(CallsOf("delete")) = 2
    /\ Len(PlanBatch) = 2

\* s is a permutation of t.
IsPermutation(s, t) ==
    /\ Len(s) = Len(t)
    /\ \E f \in [DOMAIN s -> DOMAIN t] :
          /\ \A i, j \in DOMAIN s : f[i] = f[j] => i = j
          /\ \A i \in DOMAIN s : s[i] = t[f[i]]

\* The last successful push was of the same top-level elements in another
\* order, and an incremental push is under way.
Reordered ==
    /\ Incremental
    /\ prev # <<>>
    /\ prev[1] # doc
    /\ prev[1].connectors = doc.connectors
    /\ IsPermutation(prev[1].shapes, doc.shapes)

\* C16: after a pure reordering of the top-level elements every entry has
\* the fingerprint the state file recorded for it, and the push creates,
\* updates and deletes nothing.
C16_ReorderingChangesNothing ==
    Reordered =>
        /\ \A y \in SeqSet(YamlIds) :
              /\ y \in SeqSet(file0.mappings.keys)
              /\ file0.mappings.val[y].hash = Fingerprint(y)
        /\ Created = {}
        /\ Updated = {}
        /\ Deleted = {}

\* C17: a push of a document goes past validation only if no two of its
\* elements share an identifier: the entries to push are as many as the
\* elements the document authors.
C17_CollisionIsRejected ==
    InPush => Len(YamlIds) = ElementCount(doc)

\* The authored ids of the flattened elements of a document: standalone
\* shapes and texts, and the members of its groups.
LeafIds(d) ==
    LET top    == SeqSet(d.shapes)
        groups == {g \in top : IsType(g, "group") /\ Has(g, "shapes")}
        leaves == {e \in top : ~IsType(e, "group")}
                  \cup UNION {SeqSet(g.shapes) : g \in groups}
    IN  {e.id : e \in {l \in leaves : Has(l, "id")}}

DanglingConnector(d) ==
    \E i \in DOMAIN d.connectors :
        LET c == d.connectors[i]
        IN  /\ Has(c, "from") /\ Has(c, "to")
            /\ (c.from \notin LeafIds(d) \/ c.to \notin LeafIds(d))

\* C18: the push of a document with a connector whose from or to names no
\* flattened element is refused by validation: no client call is issued,
\* the state file and the canvas stay what they were.
C18_DanglingConnectorRejected ==
    (DanglingConnector(doc) /\ pc # "idle") =>
        /\ pc = "rejected"
        /\ compiled.err \in {"unknown from", "unknown to"}
        /\ calls = <<>>
        /\ state_file = file0
        /\ canvas = canvas0

\* A document whose connector lost its endpoint was refused next to a
\* state file and a canvas that earlier pushes had filled.
C18_Witness ==
    /\ pc = "rejected" /\ DanglingConnector(doc)
    /\ compiled.err = "unknown from"
    /\ file0 # EmptyState /\ canvas # {}

\* What each ill-formed document is refused for.
ExpectedError(d) ==
    CASE d = DocNoType        -> "missing type"
      [] d = DocNoId          -> "missing id"
      [] d = DocNoPos         -> "missing pos"
      [] d = DocNoText        -> "missing text"
      [] d = DocTwiceA        -> "duplicate id"
      [] d = DocTextIdTaken   -> "duplicate id"
      [] d = DocGroupTwiceA   -> "duplicate id"
      [] d = DocNestedGroup   -> "nested group"
      [] d = DocDangling      -> "unknown to"
      [] d = DocDanglingFrom  -> "unknown from"
      [] d = DocArrowToText   -> "TypeError"
      [] OTHER                -> ""

\* C19: a push is refused exactly for the documents that fail validation
\* or the compilation of a skeleton, with the error of the first failing
\* step; a refused push has issued no client call and has left the state
\* file and the canvas as they were; a push that goes on has compiled
\* without error.
C19_RejectedBeforeAnyEffect ==
    pc # "idle" =>
        /\ pc = "rejected" <=> doc \in InvalidDocs
        /\ pc = "rejected" =>
              /\ compiled.err = ExpectedError(doc)
              /\ compiled.err # ""
              /\ calls = <<>>
              /\ state_file = file0
              /\ canvas = canvas0
        /\ InPush => compiled.err = ""

\* A document that validates but whose connector skeleton cannot be
\* computed was refused next to a filled state file and canvas.
C19_Witness ==
    /\ pc = "rejected" /\ compiled.err = "TypeError"
    /\ doc = DocArrowToText
    /\ file0 # EmptyState /\ canvas # {}

IsConnectorId(y) == Has(compiled.yaml_entries.val[y], "from")

ConnectorsLast(batch) ==
    \A i, j \in DOMAIN batch :
        (IsConnectorId(batch[i]) /\ ~IsConnectorId(batch[j])) => j < i

\* C20: in every batch-create request of a push, every connector comes
\* after every shape and text.
C20_ConnectorsAfterShapes ==
    InPush =>
        \A k \in DOMAIN calls :
            calls[k].op = "create" => ConnectorsLast(calls[k].batch)

\* The ids of the groups of document d that hold an element with id y.
GroupsOf(d, y) ==
    {g.id : g \in {e \in SeqSet(d.shapes) :
                      /\ IsType(e, "group") /\ Has(e, "id") /\ Has(e, "shapes")
                      /\ \E i \in DOMAIN e.shapes :
                            Has(e.shapes[i], "id") /\ e.shapes[i].id = y}}

\* C21: the skeleton of every member of a group carries exactly one group
\* identifier, which is derived from the group's id alone (neither from
\* its origin nor from its members), so it is the same in every push that
\* keeps the group's id and the same for all members of the group; the
\* skeleton of an element outside any group carries none.
C21_GroupIdentifierStable ==
    InPush =>
        \A y \in SeqSet(YamlIds) :
            LET sk == compiled.skeletons[y]
                gs == GroupsOf(doc, y)
            IN  IF gs # {}
                THEN /\ Cardinality(gs) = 1
                     /\ Has(sk, "groupIds")
                     /\ \A g \in gs : sk.groupIds = <<<<"sha256">> \o g>>
                ELSE Has(sk, "groupIds") => sk.groupIds = <<>>

\* The group of two was pushed at one origin and then, moved, pushed
\* again.
C21_Witness ==
    /\ pc = "done"
    /\ prev = <<DocGST(0)>> /\ doc = DocGST(10)
    /\ compiled.skeletons[<<"s">>].groupIds = compiled.skeletons[<<"t">>].groupIds
    /\ compiled.skeletons[<<"s">>].groupIds # <<>>

\* C23: a document whose connector ends at an element without width and
\* height (here a text) is valid, so its push is not refused and its
\* connector compiles to a skeleton, the endpoint counting as a point of
\* size zero at the element's origin.
C23_PointEndpointCompiles ==
    (doc = DocArrowToText /\ pc # "idle") =>
        /\ pc # "rejected"
        /\ compiled.err = ""
        /\ Has(compiled.skeletons, <<"a", "-to-", "t">>)

\* The canvas that the client calls cs leave of the canvas cv when nothing
\* else acts on it.
RECURSIVE CanvasAfter(_, _)
CanvasAfter(cs, cv) ==
    IF cs = <<>> THEN cv
    ELSE LET c == Head(cs)
             after == IF ~c.ok THEN cv
                      ELSE CASE c.op = "clear"  -> {}
                             [] c.op = "create" -> cv \cup SeqSet(c.resp)
                             [] c.op = "delete" -> cv \ {c.eid}
                             [] OTHER           -> cv
         IN  CanvasAfter(Tail(cs), after)

\* Nothing that the invocation left or put on the canvas has been removed
\* from it by someone else since the invocation began.
NoRemovalDuringPush == CanvasAfter(calls, canvas0) \subseteq canvas

\* C25: when some or all of the objects recorded in the state file were
\* removed from the canvas before a push began, the state file written by
\* that push, once it is done, maps every element of the document to an
\* object that is on the canvas.
C25_SelfHealing ==
    (/\ pc = "done"
     /\ ~(RemoteIds(file0) \subseteq canvas0)
     /\ NoRemovalDuringPush) =>
        /\ SeqSet(state_file.mappings.keys) = SeqSet(YamlIds)
        /\ \A y \in SeqSet(YamlIds) :
              state_file.mappings.val[y].excalidraw_id \in canvas

\* All recorded objects were gone when an incremental push began; it fell
\* back and is done.
C25_Witness ==
    /\ pc = "done"
    /\ file0 # EmptyState
    /\ RemoteIds(file0) \cap canvas0 = {}
    /\ fallback
    /\ NoRemovalDuringPush
    /\ YamlIds # <<>>

\* Only the object of a changed element was gone; the push is done without
\* falling back.
C25_WitnessNoFallback ==
    /\ pc = "done"
    /\ ~(RemoteIds(file0) \subseteq canvas0)
    /\ ~clear
    /\ NoRemovalDuringPush
    /\ YamlIds # <<>>

\* C26: as long as the last invocation that touched the canvas was a
\* successful push and no invocation is running, every remote identifier of
\* the state file names an object on the canvas, no two document ids share
\* a remote identifier, and the keys of the state file are the element ids
\* of the document of that push.
C26_StateMatchesCanvas ==
    (synced # <<>> /\ pc \in {"done", "idle", "rejected"}) =>
        LET ids  == Compile(synced[1]).yaml_entries.keys
            keys == state_file.mappings.keys
        IN  /\ SeqSet(keys) = SeqSet(ids)
            /\ NoDuplicates(keys)
            /\ RemoteIds(state_file) \subseteq canvas
            /\ Cardinality(RemoteIds(state_file)) = Len(keys)

\* Two successful pushes in a row, the second one incremental, keeping an
\* element and dropping or replacing another.
C26_Witness ==
    /\ pc = "done" /\ ~clear
    /\ synced = <<doc>>
    /\ prev # <<>> /\ prev # synced
    /\ Unchanged # {}
    /\ Deleted \cup Updated # {}

\* The remote identifiers that the state file of the beginning records for
\* the entries classified unchanged.
UnchangedRemoteIds ==
    {file0.mappings.val[y].excalidraw_id : y \in Unchanged}

\* C27: an incremental push that has not fallen back has issued no clear
\* call, no delete call for the object of an unchanged entry and no delete
\* call for an identifier that the state file did not record; the objects
\* of unchanged entries are on the canvas exactly if they were at the
\* beginning, and once the push is done their mappings are those of the
\* beginning.
C27_IncrementalFrame ==
    (InPush /\ ~clear) =>
        /\ \A i \in DOMAIN calls :
              /\ calls[i].op # "clear"
              /\ calls[i].op = "delete" =>
                    /\ calls[i].eid \in RemoteIds(file0)
                    /\ calls[i].eid \notin UnchangedRemoteIds
        /\ \A e \in UnchangedRemoteIds : e \in canvas <=> e \in canvas0
        /\ pc = "done" =>
              \A y \in Unchanged :
                  /\ Has(state_file.mappings.val, y)
                  /\ state_file.mappings.val[y] = file0.mappings.val[y]

\* A completed incremental push that deleted an object and kept another.
C27_Witness ==
    /\ pc = "done" /\ ~clear
    /\ Unchanged # {}
    /\ UnchangedRemoteIds \subseteq canvas
    /\ \E i \in DOMAIN calls : calls[i].op = "delete" /\ calls[i].ok

\* The fraction r is the integer v; r lies between the integers lo and hi.
RatIs(r, v) == r[1] = v * r[2]

RatBetween(r, lo, hi) == lo * r[2] <= r[1] /\ r[1] <= hi * r[2]

RatAdd(a, b) == Rat(a[1] * b[2] + b[1] * a[2], a[2] * b[2])

\* The point pt lies on the boundary of the rectangle of skeleton sk grown
\* by the padding.
OnPaddedBoundary(pt, sk) ==
    LET left   == sk.x - Pad
        right  == sk.x + sk.width[1] + Pad
        top    == sk.y - Pad
        bottom == sk.y + sk.height[1] + Pad
    IN  \/ (RatIs(pt[1], left) \/ RatIs(pt[1], right))
           /\ RatBetween(pt[2], top, bottom)
        \/ (RatIs(pt[2], top) \/ RatIs(pt[2], bottom))
           /\ RatBetween(pt[1], left, right)

CentreOf(sk) ==
    <<Rat(2 * sk.x + sk.width[1], 2), Rat(2 * sk.y + sk.height[1], 2)>>

NonOverlapping(f, t) ==
    \/ f.x + f.width[1] <= t.x \/ t.x + t.width[1] <= f.x
    \/ f.y + f.height[1] <= t.y \/ t.y + t.height[1] <= f.y

ConnectorIds ==
    {y \in SeqSet(YamlIds) : Has(compiled.yaml_entries.val[y], "from")}

ArrowStart(y) == <<compiled.skeletons[y].x, compiled.skeletons[y].y>>

ArrowEnd(y) ==
    <<RatAdd(compiled.skeletons[y].x, compiled.skeletons[y].points[2][1]),
      RatAdd(compiled.skeletons[y].y, compiled.skeletons[y].points[2][2])>>

\* C22: the arrow compiled for a connector between two rectangles that do
\* not overlap starts on the boundary of the from-rectangle grown by the
\* padding and ends on the boundary of the to-rectangle grown by the
\* padding; when the two centres coincide it starts and ends at the centre.
C22_EndpointsOnBoundary ==
    InPush =>
        \A y \in ConnectorIds :
            LET f == compiled.skeletons[compiled.yaml_entries.val[y].from]
                t == compiled.skeletons[compiled.yaml_entries.val[y].to]
            IN  IF CentreOf(f) = CentreOf(t)
                THEN ArrowStart(y) = CentreOf(f) /\ ArrowEnd(y) = CentreOf(f)
                ELSE NonOverlapping(f, t) =>
                        /\ OnPaddedBoundary(ArrowStart(y), f)
                        /\ OnPaddedBoundary(ArrowEnd(y), t)

\* The shapes and texts of a document in document order, each with the z
\* it is drawn at: <<id, z>>.
RECURSIVE FlatZ(_)
FlatZ(shapes) ==
    IF shapes = <<>> THEN <<>>
    ELSE LET e == Head(shapes)
         IN  (IF IsType(e, "group")
              THEN [i \in DOMAIN e.shapes |->
                       <<e.shapes[i].id, Get(e.shapes[i], "z", Get(e, "z", 0))>>]
              ELSE <<<<e.id, Get(e, "z", 0)>>>>)
             \o FlatZ(Tail(shapes))

PositionIn(fz, y) == CHOOSE i \in DOMAIN fz : fz[i][1] = y

\* C24: the batch of a full-recreate push lists the shapes and texts by
\* ascending z (the member of a group taking the group's z unless it has
\* its own, 0 when none is given), those of equal z in document order,
\* then the connectors in document order; when the push is done the state
\* file maps the entry at position k of the batch to the k-th identifier of
\* the response.
C24_CreationOrder ==
    (InPush /\ clear) =>
        \A i \in DOMAIN calls :
            calls[i].op = "create" =>
                LET b  == calls[i].batch
                    fz == FlatZ(doc.shapes)
                    ns == Len(fz)
                IN  /\ Len(b) = ns + Len(doc.connectors)
                    /\ {b[k] : k \in 1..ns} = {fz[k][1] : k \in 1..ns}
                    /\ \A k, l \in 1..ns :
                          k < l =>
                              LET pk == PositionIn(fz, b[k])
                                  pl == PositionIn(fz, b[l])
                              IN  \/ fz[pk][2] < fz[pl][2]
                                  \/ fz[pk][2] = fz[pl][2] /\ pk < pl
                    /\ \A k \in DOMAIN doc.connectors :
                          b[ns + k] = Get(doc.connectors[k], "id",
                                          ConnectorId(doc.connectors[k]))
                    /\ (calls[i].ok /\ pc = "done") =>
                          /\ Len(calls[i].resp) = Len(b)
                          /\ \A k \in DOMAIN b :
                                state_file.mappings.val[b[k]].excalidraw_id
                                    = calls[i].resp[k]

\* The layered document was pushed with clear: t and q (z 0) before s (z 1
\* of its group) before p (z 2), the connector last.
C24_Witness ==
    /\ pc = "done" /\ clear
    /\ doc = DocLayers(0)
    /\ calls[Len(calls)].op = "create"
    /\ calls[Len(calls)].batch =
          <<<<"t">>, <<"q">>, <<"s">>, <<"p">>, <<"q", "-to-", "p">>>>

\* An incremental push that found no recorded state.
FirstPush == InPush /\ ~clear /\ file0 = EmptyState

\* C29 as stated: a first push that is done has issued exactly one remote
\* call, a batch-create of every document element.
C29_FirstPushOneCall ==
    (FirstPush /\ pc = "done") =>
        /\ Len(calls) = 1
        /\ calls[1].op = "create"
        /\ Len(calls[1].batch) = ElementCount(doc)

\* C29 (amended): a first push issues no listing, delete or clear call and
\* at most one batch-create call; once it has ended it has issued exactly
\* one, holding every document element, unless the document has no element,
\* in which case it has issued no call at all; what was on the canvas
\* before is still there; when it is done the state file holds exactly one
\* mapping per document element.
C29_FirstPush ==
    FirstPush =>
        /\ Len(calls) <= 1
        /\ \A i \in DOMAIN calls :
              /\ calls[i].op = "create"
              /\ Len(calls[i].batch) = ElementCount(doc)
              /\ SeqSet(calls[i].batch) = SeqSet(YamlIds)
        /\ pc \in {"done", "aborted"} =>
              Len(calls) = IF ElementCount(doc) = 0 THEN 0 ELSE 1
        /\ canvas0 \subseteq canvas
        /\ pc = "done" =>
              /\ SeqSet(state_file.mappings.keys) = SeqSet(YamlIds)
              /\ NoDuplicates(state_file.mappings.keys)
              /\ Len(state_file.mappings.keys) = ElementCount(doc)

\* A first push onto a canvas that held another client's element is done.
C29_Witness ==
    /\ FirstPush /\ pc = "done"
    /\ canvas0 # {}
    /\ Len(calls) = 1
    /\ Len(state_file.mappings.keys) >= 3

\* The invocation is between two of its steps.
Running == pc \in {"list", "apply", "clear", "createAll"}

\* An upper bound of the number of steps the invocation has left.
StepsLeft ==
    CASE pc = "list"      -> Len(DeleteQueue) + 3
      [] pc = "apply"     -> Len(DeleteQueue) - di + 2
      [] pc = "clear"     -> 2
      [] pc = "createAll" -> 1
      [] OTHER            -> 0

DeleteCalls == CallsOf("delete")

\* What holds of the calls an invocation has issued so far.
BoundedCalls ==
    /\ Len(CallsOf("list")) <= 1
    /\ Len(CallsOf("clear")) <= 1
    /\ Len(CallsOf("create")) <= 1
    /\ Len(DeleteCalls) <= Len(file0.mappings.keys)
    /\ \A i, j \in DOMAIN DeleteCalls :
          DeleteCalls[i].eid = DeleteCalls[j].eid => i = j
    /\ \A i \in DOMAIN DeleteCalls : DeleteCalls[i].eid \in RemoteIds(file0)
    /\ \A i, j \in DOMAIN calls :
          (i < j /\ calls[i].op = "clear") => calls[j].op = "create"
    /\ fallback =>
          /\ calls[1].op = "list"
          /\ DeleteCalls = <<>>
    /\ Running =>
          ENABLED (ListElements \/ DeleteElement \/ CreateElements
                   \/ ClearCanvas \/ CreateAll)

\* C30: an invocation issues at most one listing, one clear and one
\* batch-create call and at most one delete call per entry of the state
\* file it began with; after a clear call (the fallback included) nothing
\* but the batch-create follows, so the stale check runs at most once; while
\* the invocation runs a step is always possible, every step brings it
\* closer to its end, and the state file is written by the last step only.
C30_BoundedPush ==
    /\ [](InPush => BoundedCalls)
    /\ [][Running =>
            /\ StepsLeft' < StepsLeft
            /\ state_file' # state_file => pc' = "done"]_vars

\* A push that took the fallback is done: one listing, one clear, one
\* batch-create, one state write.
C30_Witness ==
    /\ pc = "done" /\ fallback
    /\ Len(calls) = 3
    /\ state_file # file0

\* A batch-create call of this invocation was answered with fewer elements
\* than it requested.
ShortAnswer ==
    \E i \in DOMAIN calls :
        /\ calls[i].op = "create" /\ calls[i].ok
        /\ Len(calls[i].resp) < Len(calls[i].batch)

\* C28: when a push is done, every mapping it wrote holds an identifier
\* that the server returned; a push whose batch-create call was answered
\* with fewer elements than requested leaves the state file as it was, in
\* incremental as in full-recreate mode.
C28_ShortAnswerNotPersisted ==
    InPush =>
        /\ pc = "done" =>
              \A y \in SeqSet(state_file.mappings.keys) :
                  \/ state_file.mappings.val[y].excalidraw_id # NoId
                  \/ /\ Has(file0.mappings.val, y)
                     /\ state_file.mappings.val[y] = file0.mappings.val[y]
        /\ ShortAnswer => state_file = file0

====
